---- MODULE Spec2Model ----
(***************************************************************************)
(* A state-machine model of the NESiR emulator core: the 6502 CPU cycle    *)
(* pump (src/src/arch/cpu.rs), the CPU bus decode (src/src/arch.rs), the   *)
(* PPU port window and dot counter (src/src/arch/ppu.rs) and the reference *)
(* cartridge mapping (src/src/arch/mappers/mapper000.rs).                  *)
(*                                                                         *)
(* Bytes are integers 0..255 and addresses integers 0..65535; every        *)
(* arithmetic step keeps the width the Rust code gives it.  A Rust panic   *)
(* (panic!, unimplemented!, unreachable!, or an arithmetic overflow in a   *)
(* build with overflow checks) ends the run: the variable fault records    *)
(* it and no further step is taken.                                        *)
(***************************************************************************)
EXTENDS Integers, Sequences, FiniteSets, TLC

VARIABLES
    nes,              \* struct Nes: [cpu, ppu, cart, last_bus]
    fault,            \* "none", or the panic that ended the run
    overflow_checks,  \* TRUE: the build panics on integer overflow (debug); FALSE: it wraps (release)
    driver,           \* what steps the machine: "Cpu::cycle" (the instruction tests) or "Nes::tick" (the main loop)
    trace,            \* observation: per CPU cycle of the current instruction, the bus accesses made, and last_bus and the NMI line after it
    decodes,          \* observation: for each instruction decoded so far, the Nes before its decode cycle and the NMI line at the end of the instruction before
    retired           \* observation: number of instructions completed so far

vars == <<nes, fault, overflow_checks, driver, trace, decodes, retired>>

(***************************************************************************)
(* Bounds of the model.                                                    *)
(***************************************************************************)
\* instructions executed in one run
MaxInstr == 3

(***************************************************************************)
(* Bit arithmetic on naturals.                                             *)
(***************************************************************************)
RECURSIVE BitAnd(_, _)
BitAnd(a, b) ==
    IF a = 0 \/ b = 0 THEN 0
    ELSE (a % 2) * (b % 2) + 2 * BitAnd(a \div 2, b \div 2)

RECURSIVE BitOr(_, _)
BitOr(a, b) ==
    IF a = 0 THEN b
    ELSE IF b = 0 THEN a
    ELSE (IF a % 2 = 1 \/ b % 2 = 1 THEN 1 ELSE 0) + 2 * BitOr(a \div 2, b \div 2)

RECURSIVE BitXor(_, _)
BitXor(a, b) ==
    IF a = 0 THEN b
    ELSE IF b = 0 THEN a
    ELSE ((a + b) % 2) + 2 * BitXor(a \div 2, b \div 2)

\* !v on a u8
Not8(v) == 255 - v

\* bit i of v
Bit(v, i) == (v \div (2 ^ i)) % 2

\* u8 / u16 truncation (the `as u8`, `as u16` casts and wrapping arithmetic)
U8(v) == v % 256
U16(v) == v % 65536

\* Option::None of an Option<u8> / Option<u16>
None == -1

(***************************************************************************)
(* StatusReg (cpu.rs 17-33).                                               *)
(***************************************************************************)
Negative == 128
Overflow == 64
Unused == 32
Break == 16
Decimal == 8
InterruptDisable == 4
Zero == 2
Carry == 1

\* StatusReg::default
StatusDefault == BitOr(Unused, BitOr(Break, InterruptDisable))

\* StatusReg::contains, for a single-bit flag
Contains(status, flag) == (status \div flag) % 2 = 1

\* StatusReg::set(flag, value)
SetFlag(status, flag, value) ==
    IF value
    THEN (IF Contains(status, flag) THEN status ELSE status + flag)
    ELSE (IF Contains(status, flag) THEN status - flag ELSE status)

\* the recurring pair status.set(Zero, v == 0); status.set(Negative, v & 0x80 > 0)
SetZN(status, v) == SetFlag(SetFlag(status, Zero, v = 0), Negative, v >= 128)

(***************************************************************************)
(* Memories.  An array is held sparsely: the cells in DOMAIN at hold the   *)
(* value given there, every other cell holds dflt.                         *)
(***************************************************************************)
MemGet(mem, a) == IF a \in DOMAIN mem.at THEN mem.at[a] ELSE mem.dflt

MemSet(mem, a, d) == [mem EXCEPT !.at = (a :> d) @@ mem.at]

\* an array filled with d
MemFill(d) == [dflt |-> d, at |-> <<>>]

(***************************************************************************)
(* Panics.  The first panic of a cycle is the one recorded.                *)
(***************************************************************************)
Panic(m, why) == IF m.fault = "none" THEN [m EXCEPT !.fault = why] ELSE m

\* an integer operation whose exact result v must fit below `limit`:
\* panics in a build with overflow checks, wraps otherwise
Checked(m, v, limit) ==
    IF (v >= limit \/ v < 0) /\ m.checks THEN Panic(m, "overflow") ELSE m

(***************************************************************************)
(* Cartridge: the Mapper trait's defaults (DummyMapper) and Mapper000.     *)
(* cart = [mapper, prg_ram, prg_rom, chr_rom].  The operators below take   *)
(* and return the machine m = [cpu, ppu, cart, last_bus, log, fault,       *)
(* checks, p, ret, ran, decoded]: the Nes, the bus accesses of the running *)
(* call, the working copy p of the instruction procedure, the value ret    *)
(* that the Rust function returns, and whether the call ran a CPU cycle    *)
(* and decoded an opcode.                                                  *)
(***************************************************************************)
\* Mapper::read_cpu
read_cpu(m, addr) ==
    IF m.cart.mapper = "DummyMapper" THEN [m EXCEPT !.ret = 0]
    ELSE IF addr >= 24576 /\ addr <= 32767        \* 0x6000..=0x7FFF
    THEN [m EXCEPT !.ret = MemGet(m.cart.prg_ram, addr % 8192)]
    ELSE IF addr >= 32768                         \* 0x8000..=0xFFFF
    THEN [m EXCEPT !.ret = MemGet(m.cart.prg_rom, addr % 32768)]
    ELSE [Panic(m, "mapper000: read attempt to invalid address") EXCEPT !.ret = 0]

\* Mapper::write_cpu
write_cpu(m, addr, data) ==
    IF m.cart.mapper = "DummyMapper" THEN m
    ELSE IF addr >= 24576 /\ addr <= 32767
    THEN [m EXCEPT !.cart.prg_ram = MemSet(@, addr % 8192, data)]
    ELSE IF addr >= 32768 THEN m
    ELSE Panic(m, "mapper000: write attempt to invalid address")

\* Mapper::read_ppu
read_ppu(m, addr) ==
    IF m.cart.mapper = "DummyMapper" THEN [m EXCEPT !.ret = 0]
    ELSE IF addr <= 8191 THEN [m EXCEPT !.ret = MemGet(m.cart.chr_rom, addr)]
    ELSE [Panic(m, "mapper000: read_ppu unimplemented") EXCEPT !.ret = 0]

\* Mapper::write_ppu
write_ppu(m, addr, data) == m

(***************************************************************************)
(* PPU registers: bit fields of CtrlReg, MaskReg and VramAddr.             *)
(***************************************************************************)
base_nametable_addr(ctrl) == ctrl % 4
vram_addr_inc(ctrl) == Bit(ctrl, 2) = 1
background_pattern_addr(ctrl) == Bit(ctrl, 4)
generate_nmi(ctrl) == Bit(ctrl, 7) = 1
show_background(mask) == Bit(mask, 3) = 1
show_sprites(mask) == Bit(mask, 4) = 1

coarse_x(v) == v % 32
coarse_y(v) == (v \div 32) % 32
fine_y(v) == (v \div 4096) % 8
set_coarse_x(v, val) == v - coarse_x(v) + (val % 32)
set_coarse_y(v, val) == v - 32 * coarse_y(v) + 32 * (val % 32)
set_fine_y(v, val) == v - 4096 * fine_y(v) + 4096 * (val % 8)

\* the palette index without the fold of $10/$14/$18/$1C
PaletteIndex_NoFold(addr) == addr % 32

\* the palette index fold shared by Ppu::read and Ppu::write
PaletteIndex(addr) ==
    LET a == addr % 32 IN IF a \in {16, 20, 24, 28} THEN a % 16 ELSE a

\* an NMI output that follows generate_nmi alone, whatever the vblank flag is
update_nmi_output_NoVblank(m) ==
    IF generate_nmi(m.ppu.ctrl)
    THEN [m EXCEPT !.cpu.nmi = FALSE]
    ELSE m

\* Ppu::update_nmi_output
update_nmi_output(m) ==
    IF generate_nmi(m.ppu.ctrl) /\ m.ppu.vblank
    THEN [m EXCEPT !.cpu.nmi = FALSE]
    ELSE m

\* Ppu::read: read from the PPU memory map
PpuRead(m, addr) ==
    LET a == addr % 16384 IN
    IF a <= 8191 THEN read_ppu(m, addr)
    ELSE IF a <= 16127                            \* 0x2000..=0x3EFF
    THEN [m EXCEPT !.ret = MemGet(m.ppu.ciram, addr % 2048)]
    ELSE IF m.ppu.vblank
    THEN [Panic(m, "unimplemented: PPU read from palette RAM during VBLANK") EXCEPT !.ret = 0]
    ELSE [m EXCEPT !.ret = MemGet(m.ppu.palettes, PaletteIndex(addr))]

\* Ppu::write: write to the PPU memory map
PpuWrite(m, addr, data) ==
    LET a == addr % 16384 IN
    IF a <= 8191 THEN write_ppu(m, addr, data)
    ELSE IF a <= 16127
    THEN [m EXCEPT !.ppu.ciram = MemSet(@, addr % 2048, data)]
    ELSE [m EXCEPT !.ppu.palettes = MemSet(@, PaletteIndex(addr), data)]

\* the `vram_addr.0 += inc` that ends a $2007 access
VramStep(m) ==
    LET inc == IF ~vram_addr_inc(m.ppu.ctrl) THEN 1 ELSE 32
        sum == m.ppu.vram_addr + inc
    IN  [Checked(m, sum, 65536) EXCEPT !.ppu.vram_addr = U16(sum)]

\* Ppu::port_read returning zero in place of the latch
LatchOut_Zero(r) == [r EXCEPT !.ret = 0]

\* the `self.ports_latch` that ends Ppu::port_read
LatchOut(r) == [r EXCEPT !.ret = r.ppu.ports_latch]

\* a port read whose $2002 arm leaves the write toggle as it is
port_read_KeepToggle(m, addr) ==
    LatchOut(
        CASE addr \in {8192, 8193, 8195, 8197, 8198} -> m
          [] addr = 8194 ->
                [m EXCEPT !.ppu.ports_latch = BitOr((IF m.ppu.vblank THEN 128 ELSE 0), @ % 32),
                          !.ppu.vblank = FALSE]
          [] addr = 8196 -> Panic(m, "unimplemented: PPU read from 0x2004")
          [] addr = 8199 -> VramStep(PpuRead(m, m.ppu.vram_addr))
          [] OTHER -> Panic(m, "unreachable: port_read"))

\* Ppu::port_read
port_read(m, addr) ==
    LatchOut(
        CASE addr \in {8192, 8193, 8195, 8197, 8198} -> m
          [] addr = 8194 ->
                [m EXCEPT !.ppu.ports_latch = BitOr((IF m.ppu.vblank THEN 128 ELSE 0), @ % 32),
                          !.ppu.vblank = FALSE,
                          !.ppu.write_toggle = FALSE]
          [] addr = 8196 -> Panic(m, "unimplemented: PPU read from 0x2004")
          [] addr = 8199 -> VramStep(PpuRead(m, m.ppu.vram_addr))
          [] OTHER -> Panic(m, "unreachable: port_read"))

\* Ppu::port_write
port_write(m, addr, data) ==
    LET l == [m EXCEPT !.ppu.ports_latch = data] IN
    CASE addr = 8192 ->
            IF l.ppu.ctrl_unlocked
            THEN update_nmi_output([l EXCEPT !.ppu.ctrl = data])
            ELSE l
      [] addr = 8193 -> [l EXCEPT !.ppu.mask = data]
      [] addr = 8194 -> l
      [] addr = 8195 -> [l EXCEPT !.ppu.oam_addr = data]
      [] addr = 8196 -> Panic(l, "unimplemented: PPU write to 0x2004")
      [] addr = 8197 ->
            IF ~l.ppu.write_toggle
            THEN [l EXCEPT !.ppu.tmp_vram_addr = set_coarse_x(@, data \div 8),
                           !.ppu.fine_x_scroll = data % 8,
                           !.ppu.write_toggle = TRUE]
            ELSE [l EXCEPT !.ppu.tmp_vram_addr = set_fine_y(set_coarse_y(@, data \div 8), data % 8),
                           !.ppu.write_toggle = FALSE]
      [] addr = 8198 ->
            IF ~l.ppu.write_toggle
            THEN [l EXCEPT !.ppu.tmp_vram_addr = 256 * (data % 64) + (@ % 256),
                           !.ppu.write_toggle = TRUE]
            ELSE LET t == (l.ppu.tmp_vram_addr - (l.ppu.tmp_vram_addr % 256)) + data IN
                 [l EXCEPT !.ppu.tmp_vram_addr = t,
                           !.ppu.vram_addr = t,
                           !.ppu.write_toggle = FALSE]
      [] addr = 8199 -> VramStep(PpuWrite(l, l.ppu.vram_addr, data))
      [] OTHER -> Panic(l, "unreachable: port_write")

(***************************************************************************)
(* The CPU bus (impl CpuBusAccessible for Cpu and for Nes, the build       *)
(* without the "sst" feature).                                             *)
(***************************************************************************)
\* Cpu::read (CpuBusAccessible)
CpuRead(m, addr) ==
    IF addr <= 8191 THEN [m EXCEPT !.ret = MemGet(m.cpu.wram, addr % 2048)]
    ELSE [Panic(m, "cpu: read attempt to invalid address") EXCEPT !.ret = 0]

\* Cpu::write (CpuBusAccessible)
CpuWrite(m, addr, data) ==
    IF addr <= 8191 THEN [m EXCEPT !.cpu.wram = MemSet(@, addr % 2048, data)]
    ELSE Panic(m, "cpu: write attempt to invalid address")

\* the end of Nes::read, r being the machine after the `match addr`:
\* `self.cpu.predecode = data; self.last_bus = (addr, data, true)`
ReadLatch(r, addr) ==
    [r EXCEPT !.cpu.predecode = r.ret,
              !.last_bus = <<addr, r.ret, TRUE>>,
              !.log = Append(@, <<addr, r.ret, TRUE>>)]

\* Nes::read
BusRead(m, addr) ==
    ReadLatch(IF addr <= 8191 THEN CpuRead(m, addr)
              ELSE IF addr <= 16383 THEN port_read(m, addr)
              ELSE IF addr <= 16407 THEN [m EXCEPT !.ret = 0]           \* 0x4000..=0x4017
              ELSE IF addr <= 16415
              THEN [Panic(m, "read attempt to CPU test mode") EXCEPT !.ret = 0]
              ELSE read_cpu(m, addr),
              addr)

\* the `match addr` of Nes::write, p0 being the machine after
\* `self.cpu.predecode = data`
WriteRoute(p0, addr, data) ==
    IF addr <= 8191 \/ addr = 16404 THEN CpuWrite(p0, addr, data)  \* 0x0000..=0x1FFF | 0x4014
    ELSE IF addr <= 16383 THEN port_write(p0, addr, data)
    ELSE IF addr <= 16407 THEN p0
    ELSE IF addr <= 16415 THEN Panic(p0, "write attempt to CPU test mode")
    ELSE write_cpu(p0, addr, data)

\* Nes::write
BusWrite(m, addr, data) ==
    [WriteRoute([m EXCEPT !.cpu.predecode = data], addr, data)
        EXCEPT !.last_bus = <<addr, data, FALSE>>,
               !.log = Append(@, <<addr, data, FALSE>>)]

(***************************************************************************)
(* CPU helpers.                                                            *)
(***************************************************************************)
\* the function's return value
Ret(m, v) == [m EXCEPT !.ret = v]

\* addr_concat
addr_concat(high, low) == 256 * high + low

\* a pulled status that keeps bit 5 as the stack holds it
from_pulled_NoUnused(bits) == BitAnd(bits, 207)

\* `status.bits = pulled & 0b11001111; status.bits |= 0b00100000` of plp and rti
from_pulled(bits) == BitOr(BitAnd(bits, 207), 32)

\* an assignment of the value r.ret that the call before returned:
\* `procedure.tmp0 = ..`, `procedure.tmp1 = ..`,
\* `procedure.tmp_addr = addr_concat(0x00, ..)`, `cpu.prefetch = Some(..)`,
\* `cpu.acc = ..`, `cpu.status.bits = ..` (plp, rti) and
\* `cpu.pc = (pch << 8) | tmp0` (jmp)
Keep(r, reg) ==
    CASE reg = "tmp0" -> [r EXCEPT !.p.tmp0 = r.ret]
      [] reg = "tmp1" -> [r EXCEPT !.p.tmp1 = r.ret]
      [] reg = "tmp_addr" -> [r EXCEPT !.p.tmp_addr = addr_concat(0, r.ret)]
      [] reg = "prefetch" -> [r EXCEPT !.cpu.prefetch = r.ret]
      [] reg = "acc" -> [r EXCEPT !.cpu.acc = r.ret]
      [] reg = "x" -> [r EXCEPT !.cpu.x = r.ret]
      [] reg = "y" -> [r EXCEPT !.cpu.y = r.ret]
      [] reg = "status" -> [r EXCEPT !.cpu.status = from_pulled(r.ret)]
      [] reg = "pch" -> [r EXCEPT !.cpu.pc = addr_concat(r.ret, r.p.tmp0)]

\* `self.pc += 1`
IncPc(m) == [Checked(m, m.cpu.pc + 1, 65536) EXCEPT !.cpu.pc = U16(@ + 1)]

\* Cpu::fetch: read at PC, then `self.pc += 1`
Fetch(m) == IncPc(BusRead(m, m.cpu.pc))

\* Cpu::stack_push
stack_push(m, data) ==
    [BusWrite(m, 256 + m.cpu.sp, data) EXCEPT !.cpu.sp = (@ + 255) % 256]

\* a pull that reads above the stack page when the stack pointer wraps
stack_pull_NoWrap(m) ==
    BusRead([m EXCEPT !.cpu.sp = (@ + 1) % 256], 256 + m.cpu.sp + 1)

\* Cpu::stack_pull
stack_pull(m) ==
    BusRead([m EXCEPT !.cpu.sp = (@ + 1) % 256], 256 + ((m.cpu.sp + 1) % 256))

\* `cpu.prefetch = Some(cpu.fetch(bus))`
Prefetch(m) == Keep(Fetch(m), "prefetch")

\* a last cycle that marks the procedure done and fetches nothing
Finish_NoPrefetch(m) == [m EXCEPT !.p.done = TRUE]

\* `cpu.prefetch = Some(cpu.fetch(bus)); procedure.done = true`
Finish(m) == [Prefetch(m) EXCEPT !.p.done = TRUE]

\* `procedure.tmp0 = cpu.fetch(bus)` and `procedure.tmp1 = cpu.fetch(bus)`
FetchTmp0(m) == Keep(Fetch(m), "tmp0")
FetchTmp1(m) == Keep(Fetch(m), "tmp1")

\* `procedure.tmp0 = bus.read(addr)` and `procedure.tmp1 = bus.read(addr)`
ReadTmp0(m, addr) == Keep(BusRead(m, addr), "tmp0")
ReadTmp1(m, addr) == Keep(BusRead(m, addr), "tmp1")

\* `cpu.pc = addr_concat(tmp1, tmp0)`
Jump(m) == [m EXCEPT !.cpu.pc = addr_concat(m.p.tmp1, m.p.tmp0)]

\* an indexed address with no page-cross penalty: the address on the fourth
\* cycle whether or not the low byte carries
IndexedAddr_NoPenalty(m, index) ==
    LET sum == m.p.tmp0 + index
        high == m.p.tmp1 + (IF sum >= 256 THEN 1 ELSE 0)
        c == [Checked(m, high, 256) EXCEPT !.p.tmp_addr = addr_concat(U8(high), U8(sum))]
    IN  Ret(c, c.p.tmp_addr)

\* the indexed address of effective_addr (AbsoluteX | AbsoluteY, IndirectY):
\* `let (result, carry) = tmp0.overflowing_add(index);
\*  tmp_addr = addr_concat(tmp1 + carry as u8, result);
\*  if !carry { Some(tmp_addr) } else { bus.read(tmp_addr); None }`
IndexedAddr(m, index) ==
    LET sum == m.p.tmp0 + index
        carry == IF sum >= 256 THEN 1 ELSE 0
        high == m.p.tmp1 + carry
        c == [Checked(m, high, 256) EXCEPT !.p.tmp_addr = addr_concat(U8(high), U8(sum))]
    IN  IF carry = 0 THEN Ret(c, c.p.tmp_addr)
        ELSE Ret(BusRead(c, c.p.tmp_addr), None)

\* `procedure.tmp_addr = addr_concat(0x00, procedure.tmp0)`
ZeroAddr(f) == [f EXCEPT !.p.tmp_addr = addr_concat(0, f.p.tmp0)]

\* effective_addr: one step of the addressing-mode micro-program of a read
\* or write instruction; ret is Some(address) on the access cycle
effective_addr(m) ==
    LET cycle == m.p.cycle
        mode == m.p.mode
    IN
    CASE mode = "Immediate" ->
            IF cycle = 2
            THEN Ret(IncPc(m), m.cpu.pc)
            ELSE Ret(m, None)
      [] mode = "Zero" ->
            CASE cycle = 2 -> Ret(FetchTmp0(m), None)
              [] cycle = 3 -> Ret(m, addr_concat(0, m.p.tmp0))
              [] OTHER -> Ret(m, None)
      [] mode = "Absolute" ->
            CASE cycle = 2 -> Ret(FetchTmp0(m), None)
              [] cycle = 3 -> Ret(FetchTmp1(m), None)
              [] cycle = 4 -> Ret(m, addr_concat(m.p.tmp1, m.p.tmp0))
              [] OTHER -> Ret(m, None)
      [] mode = "IndirectX" ->
            CASE cycle = 2 -> Ret(FetchTmp0(m), None)
              [] cycle = 3 -> Ret(BusRead(m, addr_concat(0, m.p.tmp0)), None)
              [] cycle = 4 ->
                    LET a == addr_concat(0, U8(m.p.tmp0 + m.cpu.x)) IN
                    Ret(ReadTmp0([m EXCEPT !.p.tmp_addr = a], a), None)
              [] cycle = 5 -> Ret(ReadTmp1(m, (m.p.tmp_addr + 1) % 256), None)
              [] cycle = 6 -> Ret(m, addr_concat(m.p.tmp1, m.p.tmp0))
              [] OTHER -> Ret(m, None)
      [] mode \in {"AbsoluteX", "AbsoluteY"} ->
            CASE cycle = 2 -> Ret(FetchTmp0(m), None)
              [] cycle = 3 -> Ret(FetchTmp1(m), None)
              [] cycle = 4 -> IndexedAddr(m, IF mode = "AbsoluteX" THEN m.cpu.x ELSE m.cpu.y)
              [] cycle = 5 -> Ret(m, m.p.tmp_addr)
              [] OTHER -> Ret(m, None)
      [] mode \in {"ZeroX", "ZeroY"} ->
            CASE cycle = 2 -> Ret(FetchTmp0(m), None)
              [] cycle = 3 -> Ret(BusRead(m, addr_concat(0, m.p.tmp0)), None)
              [] cycle = 4 ->
                    IF mode = "ZeroX"
                    THEN Ret(m, (m.p.tmp0 + m.cpu.x) % 256)
                    ELSE Ret(m, (m.p.tmp0 + m.cpu.y) % 256)
              [] OTHER -> Ret(m, None)
      [] mode = "IndirectY" ->
            CASE cycle = 2 -> Ret(Keep(Fetch(m), "tmp_addr"), None)
              [] cycle = 3 -> Ret(ReadTmp0(m, m.p.tmp_addr), None)
              [] cycle = 4 -> Ret(ReadTmp1(m, (m.p.tmp_addr + 1) % 256), None)
              [] cycle = 5 -> IndexedAddr(m, m.cpu.y)
              [] cycle = 6 -> Ret(m, m.p.tmp_addr)
              [] OTHER -> Ret(m, None)
      [] OTHER -> Ret(Panic(m, "unimplemented: effective_addr mode"), None)

\* the cycles shared by every mode of read_modify_write once tmp_addr is known:
\* read the operand, write it back unmodified, then hand out the address
RmwTail(m, first) ==
    CASE m.p.cycle = first -> Ret(ReadTmp0(m, m.p.tmp_addr), None)
      [] m.p.cycle = first + 1 -> Ret(BusWrite(m, m.p.tmp_addr, m.p.tmp0), None)
      [] m.p.cycle = first + 2 -> Ret(m, m.p.tmp_addr)
      [] OTHER -> Ret(m, None)

\* `tmp_addr = addr_concat(tmp1, tmp0) + index as u16; bus.read(tmp_addr)`
\* of read_modify_write (AbsoluteX, AbsoluteY)
RmwIndexed(m, index) ==
    LET sum == addr_concat(m.p.tmp1, m.p.tmp0) + index
        c == [Checked(m, sum, 65536) EXCEPT !.p.tmp_addr = U16(sum)]
    IN  Ret(BusRead(c, c.p.tmp_addr), None)

\* read_modify_write: one step of the addressing-mode micro-program of a
\* read-modify-write instruction; tmp0 holds the operand, ret is
\* Some(address) on the cycle of the modified write
read_modify_write(m) ==
    LET cycle == m.p.cycle
        mode == m.p.mode
    IN
    CASE mode = "Zero" ->
            IF cycle = 2 THEN Ret(Keep(Fetch(m), "tmp_addr"), None) ELSE RmwTail(m, 3)
      [] mode = "Absolute" ->
            CASE cycle = 2 -> Ret(FetchTmp0(m), None)
              [] cycle = 3 -> Ret(FetchTmp1(m), None)
              [] cycle = 4 ->
                    LET a == addr_concat(m.p.tmp1, m.p.tmp0) IN
                    Ret(ReadTmp0([m EXCEPT !.p.tmp_addr = a], a), None)
              [] OTHER -> RmwTail(m, 4)
      [] mode = "ZeroX" ->
            CASE cycle = 2 ->
                    Ret(ZeroAddr(FetchTmp0(m)), None)
              [] cycle = 3 -> Ret(BusRead(m, m.p.tmp_addr), None)
              [] cycle = 4 ->
                    LET a == (m.p.tmp0 + m.cpu.x) % 256 IN
                    Ret(ReadTmp0([m EXCEPT !.p.tmp_addr = a], a), None)
              [] OTHER -> RmwTail(m, 4)
      [] mode = "AbsoluteX" ->
            CASE cycle = 2 -> Ret(FetchTmp0(m), None)
              [] cycle = 3 -> Ret(FetchTmp1(m), None)
              [] cycle = 4 -> RmwIndexed(m, m.cpu.x)
              [] OTHER -> RmwTail(m, 5)
      [] mode = "IndirectX" ->
            CASE cycle = 2 -> Ret(FetchTmp0(m), None)
              [] cycle = 3 ->
                    LET a == addr_concat(0, m.p.tmp0) IN
                    Ret(BusRead([m EXCEPT !.p.tmp_addr = a], a), None)
              [] cycle = 4 -> Ret(ReadTmp0(m, (m.p.tmp_addr + m.cpu.x) % 256), None)
              [] cycle = 5 -> Ret(ReadTmp1(m, (m.p.tmp_addr + m.cpu.x + 1) % 256), None)
              [] cycle = 6 ->
                    LET a == addr_concat(m.p.tmp1, m.p.tmp0) IN
                    Ret(ReadTmp0([m EXCEPT !.p.tmp_addr = a], a), None)
              [] OTHER -> RmwTail(m, 6)
      [] mode = "IndirectY" ->
            CASE cycle = 2 -> Ret(Keep(Fetch(m), "tmp_addr"), None)
              [] cycle = 3 -> Ret(ReadTmp0(m, m.p.tmp_addr), None)
              [] cycle = 4 -> Ret(ReadTmp1(m, (m.p.tmp_addr + 1) % 256), None)
              [] cycle = 5 ->
                    LET low == m.p.tmp0 + m.cpu.y
                        r == BusRead(Checked(m, low, 256), addr_concat(m.p.tmp1, U8(low)))
                        sum == addr_concat(m.p.tmp1, m.p.tmp0) + m.cpu.y
                    IN  Ret([Checked(r, sum, 65536) EXCEPT !.p.tmp_addr = U16(sum)], None)
              [] OTHER -> RmwTail(m, 6)
      [] mode = "AbsoluteY" ->
            CASE cycle = 2 -> Ret(FetchTmp0(m), None)
              [] cycle = 3 -> Ret(FetchTmp1(m), None)
              [] cycle = 4 -> RmwIndexed(m, m.cpu.y)
              [] OTHER -> RmwTail(m, 5)
      [] OTHER -> Ret(Panic(m, "unimplemented: read_modify_write mode"), None)

(***************************************************************************)
(* Instruction step functions.  A function that opens with                 *)
(* `if let Some(addr) = effective_addr(..)` or                             *)
(* `if let Some(addr) = read_modify_write(..)` is given as the body of     *)
(* that `if let`; the others take the machine at one cycle of the          *)
(* instruction and return it after that cycle.                             *)
(***************************************************************************)
\* a sum that leaves the carry flag out of the addition
AddWithCarry_NoCarryIn(m, data) ==
    LET acc == m.cpu.acc
        result == acc + data
        s1 == SetFlag(m.cpu.status, Carry, Bit(result, 8) = 1)
        s2 == SetFlag(s1, Overflow,
                      BitAnd(BitAnd(Not8(BitXor(acc, data)), BitXor(acc, U8(result))), 128) # 0)
        s3 == SetFlag(s2, Zero, U8(result) = 0)
        s4 == SetFlag(s3, Negative, Bit(result, 7) = 1)
    IN  [m EXCEPT !.cpu.status = s4, !.cpu.acc = U8(result)]

\* the sum and flags shared by adc, sbc, isb and rra (cpu.rs 513-519)
AddWithCarry(m, data) ==
    LET acc == m.cpu.acc
        result == acc + data + (IF Contains(m.cpu.status, Carry) THEN 1 ELSE 0)
        s1 == SetFlag(m.cpu.status, Carry, Bit(result, 8) = 1)
        s2 == SetFlag(s1, Overflow,
                      BitAnd(BitAnd(Not8(BitXor(acc, data)), BitXor(acc, U8(result))), 128) # 0)
        s3 == SetFlag(s2, Zero, U8(result) = 0)
        s4 == SetFlag(s3, Negative, Bit(result, 7) = 1)
    IN  [m EXCEPT !.cpu.status = s4, !.cpu.acc = U8(result)]

\* the flags shared by cmp, cpx, cpy and dcp
Compare(m, reg, data) ==
    [m EXCEPT !.cpu.status =
        SetFlag(SetFlag(SetFlag(@, Carry, reg >= data), Zero, reg = data),
                Negative, U8(reg + 256 - data) >= 128)]

\* the value transformations of the shifts and rotates, on a (status, byte) pair
ShiftLeft(status, v) == <<SetFlag(status, Carry, v >= 128), U8(2 * v)>>
ShiftRight(status, v) == <<SetFlag(status, Carry, v % 2 = 1), v \div 2>>
RotateLeft(status, v) ==
    <<SetFlag(status, Carry, v >= 128), U8(2 * v) + (IF Contains(status, Carry) THEN 1 ELSE 0)>>
RotateRight(status, v) ==
    <<SetFlag(status, Carry, v % 2 = 1), (IF Contains(status, Carry) THEN 128 ELSE 0) + (v \div 2)>>

\* a shift applied to the accumulator (Accumulator mode) or to the operand in tmp0
Shift(m, sv) ==
    IF m.p.mode = "Accumulator"
    THEN [m EXCEPT !.cpu.status = SetZN(sv[1], sv[2]), !.cpu.acc = sv[2]]
    ELSE [m EXCEPT !.cpu.status = SetZN(sv[1], sv[2]), !.p.tmp0 = sv[2]]

\* the byte a shift works on
ShiftOperand(m) == IF m.p.mode = "Accumulator" THEN m.cpu.acc ELSE m.p.tmp0

\* a register load: the register is set by the caller, N and Z follow the value
SetNZ(m, v) == [m EXCEPT !.cpu.status = SetZN(@, v)]

\* the read instructions, r.ret being `let data = bus.read(addr)`
adc(r) == AddWithCarry(r, r.ret)
and(r) == SetNZ([r EXCEPT !.cpu.acc = BitAnd(@, r.ret)], BitAnd(r.cpu.acc, r.ret))
bit(r) ==
    [r EXCEPT !.cpu.status =
        SetFlag(SetFlag(SetFlag(@, Zero, BitAnd(r.ret, r.cpu.acc) = 0),
                        Overflow, Bit(r.ret, 6) = 1),
                Negative, Bit(r.ret, 7) = 1)]
cmp(r) == Compare(r, r.cpu.acc, r.ret)
cpx(r) == Compare(r, r.cpu.x, r.ret)
cpy(r) == Compare(r, r.cpu.y, r.ret)
eor(r) == SetNZ([r EXCEPT !.cpu.acc = BitXor(@, r.ret)], BitXor(r.cpu.acc, r.ret))
las(r) ==
    LET tmp == BitAnd(r.ret, r.cpu.sp) IN
    SetNZ([r EXCEPT !.cpu.acc = tmp, !.cpu.x = tmp, !.cpu.sp = tmp], tmp)
lda(r) == SetNZ(Keep(r, "acc"), r.ret)
ldx(r) == SetNZ(Keep(r, "x"), r.ret)
ldy(r) == SetNZ(Keep(r, "y"), r.ret)
ora(r) == SetNZ([r EXCEPT !.cpu.acc = BitOr(@, r.ret)], BitOr(r.cpu.acc, r.ret))
sbc(r) == AddWithCarry(r, Not8(r.ret))

\* the read-modify-write instructions, tmp0 holding the operand
asl(r) == Shift(r, ShiftLeft(r.cpu.status, ShiftOperand(r)))
lsr(r) == Shift(r, ShiftRight(r.cpu.status, ShiftOperand(r)))
rol(r) == Shift(r, RotateLeft(r.cpu.status, ShiftOperand(r)))
ror(r) == Shift(r, RotateRight(r.cpu.status, ShiftOperand(r)))
dcp(r) == LET v == U8(r.p.tmp0 + 255) IN Compare([r EXCEPT !.p.tmp0 = v], r.cpu.acc, v)
dec(r) == LET v == U8(r.p.tmp0 + 255) IN SetNZ([r EXCEPT !.p.tmp0 = v], v)
inc(r) == LET v == U8(r.p.tmp0 + 1) IN SetNZ([r EXCEPT !.p.tmp0 = v], v)
isb(r) == LET v == U8(r.p.tmp0 + 1) IN AddWithCarry([r EXCEPT !.p.tmp0 = v], Not8(v))
rla(r) ==
    LET sv == RotateLeft(r.cpu.status, r.p.tmp0)
        a == BitAnd(r.cpu.acc, sv[2])
    IN  [r EXCEPT !.p.tmp0 = sv[2], !.cpu.acc = a, !.cpu.status = SetZN(sv[1], a)]
rra(r) ==
    LET sv == RotateRight(r.cpu.status, r.p.tmp0) IN
    AddWithCarry([r EXCEPT !.p.tmp0 = sv[2], !.cpu.status = sv[1]], sv[2])
slo(r) ==
    LET sv == ShiftLeft(r.cpu.status, r.p.tmp0)
        a == BitOr(r.cpu.acc, sv[2])
    IN  [r EXCEPT !.p.tmp0 = sv[2], !.cpu.acc = a, !.cpu.status = SetZN(sv[1], a)]
sre(r) ==
    LET sv == ShiftRight(r.cpu.status, r.p.tmp0)
        a == BitXor(r.cpu.acc, sv[2])
    IN  [r EXCEPT !.p.tmp0 = sv[2], !.cpu.acc = a, !.cpu.status = SetZN(sv[1], a)]

\* the two-cycle register instructions, m being the machine at cycle 2
clc(m) == [m EXCEPT !.cpu.status = SetFlag(@, Carry, FALSE)]
cld(m) == [m EXCEPT !.cpu.status = SetFlag(@, Decimal, FALSE)]
cli(m) == [m EXCEPT !.cpu.status = SetFlag(@, InterruptDisable, FALSE)]
clv(m) == [m EXCEPT !.cpu.status = SetFlag(@, Overflow, FALSE)]
sec(m) == [m EXCEPT !.cpu.status = SetFlag(@, Carry, TRUE)]
sed(m) == [m EXCEPT !.cpu.status = SetFlag(@, Decimal, TRUE)]
sei(m) == [m EXCEPT !.cpu.status = SetFlag(@, InterruptDisable, TRUE)]
dex(m) == LET v == U8(m.cpu.x + 255) IN SetNZ([m EXCEPT !.cpu.x = v], v)
dey(m) == LET v == U8(m.cpu.y + 255) IN SetNZ([m EXCEPT !.cpu.y = v], v)
inx(m) == LET v == U8(m.cpu.x + 1) IN SetNZ([m EXCEPT !.cpu.x = v], v)
iny(m) == LET v == U8(m.cpu.y + 1) IN SetNZ([m EXCEPT !.cpu.y = v], v)
tax(m) == SetNZ([m EXCEPT !.cpu.x = m.cpu.acc], m.cpu.acc)
tay(m) == SetNZ([m EXCEPT !.cpu.y = m.cpu.acc], m.cpu.acc)
tsx(m) == SetNZ([m EXCEPT !.cpu.x = m.cpu.sp], m.cpu.sp)
txa(m) == SetNZ([m EXCEPT !.cpu.acc = m.cpu.x], m.cpu.x)
txs(m) == [m EXCEPT !.cpu.sp = m.cpu.x]
tya(m) == SetNZ([m EXCEPT !.cpu.acc = m.cpu.y], m.cpu.y)

\* the store and address instructions, e.ret being the address
\* lax: `cpu.acc = bus.read(addr); cpu.x = bus.read(addr)`, N and Z from x
lax(e) == Finish(ldx(BusRead(Keep(BusRead(e, e.ret), "acc"), e.ret)))
sax(e) == Finish(BusWrite(e, e.ret, BitAnd(e.cpu.acc, e.cpu.x)))

\* a store that writes as soon as the address is known, like a read
sta_NoExtraCycle(e) == Finish(BusWrite(e, e.ret, e.cpu.acc))

sta(e) ==
    IF (e.p.mode \in {"AbsoluteX", "AbsoluteY"} /\ e.p.cycle = 4)
       \/ (e.p.mode = "IndirectY" /\ e.p.cycle = 5)
    THEN e
    ELSE Finish(BusWrite(e, e.ret, e.cpu.acc))
stx(e) ==
    IF e.p.mode \in {"AbsoluteX", "AbsoluteY"} /\ e.p.cycle = 4 THEN e
    ELSE Finish(BusWrite(e, e.ret, e.cpu.x))
sty(e) ==
    IF e.p.mode \in {"AbsoluteX", "AbsoluteY"} /\ e.p.cycle = 4 THEN e
    ELSE Finish(BusWrite(e, e.ret, e.cpu.y))

\* the condition each branch instruction hands to branch
to_branch(m) ==
    CASE m.p.func = "bcc" -> ~Contains(m.cpu.status, Carry)
      [] m.p.func = "bcs" -> Contains(m.cpu.status, Carry)
      [] m.p.func = "beq" -> Contains(m.cpu.status, Zero)
      [] m.p.func = "bmi" -> Contains(m.cpu.status, Negative)
      [] m.p.func = "bne" -> ~Contains(m.cpu.status, Zero)
      [] m.p.func = "bpl" -> ~Contains(m.cpu.status, Negative)
      [] m.p.func = "bvc" -> ~Contains(m.cpu.status, Overflow)
      [] m.p.func = "bvs" -> Contains(m.cpu.status, Overflow)

\* the end of cycle 2 of branch, f being the machine after the operand fetch
BranchOperand(f, taken) == IF ~taken THEN Finish(f) ELSE f

\* the end of cycle 3 of branch, t being the machine with the target in tmp_addr
BranchPage(t) ==
    IF (t.cpu.pc \div 256) = (t.p.tmp_addr \div 256)
    THEN Finish([t EXCEPT !.cpu.pc = t.p.tmp_addr])
    ELSE t

\* branch
branch(m, taken) ==
    CASE m.p.cycle = 2 -> BranchOperand(FetchTmp0(m), taken)
      [] m.p.cycle = 3 ->
            LET pc16 == IF m.cpu.pc >= 32768 THEN m.cpu.pc - 65536 ELSE m.cpu.pc
                off == IF m.p.tmp0 >= 128 THEN m.p.tmp0 - 256 ELSE m.p.tmp0
                sum == pc16 + off
            IN  BranchPage([(IF (sum > 32767 \/ sum < -32768) /\ m.checks
                             THEN Panic(m, "overflow") ELSE m)
                               EXCEPT !.p.tmp_addr = (sum + 65536) % 65536])
      [] m.p.cycle = 4 -> Finish([m EXCEPT !.cpu.pc = m.p.tmp_addr])
      [] OTHER -> m

brk(m) ==
    CASE m.p.cycle = 2 -> Fetch(m)
      [] m.p.cycle = 3 -> stack_push(m, m.cpu.pc \div 256)
      [] m.p.cycle = 4 -> stack_push(m, m.cpu.pc % 256)
      [] m.p.cycle = 5 -> stack_push(m, BitOr(m.cpu.status, 16))
      [] m.p.cycle = 6 -> ReadTmp0(m, 65534)
      [] m.p.cycle = 7 -> Finish(Jump(ReadTmp1(m, 65535)))
      [] OTHER -> m

jmp(m) ==
    CASE m.p.mode = "Absolute" ->
            CASE m.p.cycle = 2 -> FetchTmp0(m)
              [] m.p.cycle = 3 -> Finish(Keep(BusRead(m, m.cpu.pc), "pch"))
              [] OTHER -> m
      [] m.p.mode = "Indirect" ->
            CASE m.p.cycle = 2 -> FetchTmp0(m)
              [] m.p.cycle = 3 -> FetchTmp1(m)
              [] m.p.cycle = 4 ->
                    LET a == addr_concat(m.p.tmp1, m.p.tmp0) IN
                    ReadTmp0([m EXCEPT !.p.tmp_addr = a], a)
              [] m.p.cycle = 5 ->
                    LET next == m.p.tmp_addr + 1 IN
                    Finish(Jump(ReadTmp1(Checked(m, next, 65536),
                                         (U16(next) % 256)
                                         + (m.p.tmp_addr - (m.p.tmp_addr % 256)))))
              [] OTHER -> m
      [] OTHER -> Panic(m, "jmp: invalid mode")

jsr(m) ==
    CASE m.p.cycle = 2 -> FetchTmp0(m)
      [] m.p.cycle = 3 -> BusRead(m, 256 + m.cpu.sp)
      [] m.p.cycle = 4 -> stack_push(m, m.cpu.pc \div 256)
      [] m.p.cycle = 5 -> stack_push(m, m.cpu.pc % 256)
      [] m.p.cycle = 6 -> Finish(Jump(FetchTmp1(m)))
      [] OTHER -> m

\* a push that leaves the Break and Unused bits out of the pushed byte
php_NoBreak(m) ==
    CASE m.p.cycle = 2 -> BusRead(m, m.cpu.pc)
      [] m.p.cycle = 3 -> Finish(stack_push(m, m.cpu.status))
      [] OTHER -> m

pha(m) ==
    CASE m.p.cycle = 2 -> BusRead(m, m.cpu.pc)
      [] m.p.cycle = 3 -> Finish(stack_push(m, m.cpu.acc))
      [] OTHER -> m

php(m) ==
    CASE m.p.cycle = 2 -> BusRead(m, m.cpu.pc)
      [] m.p.cycle = 3 -> Finish(stack_push(m, BitOr(m.cpu.status, 48)))
      [] OTHER -> m

pla(m) ==
    CASE m.p.cycle = 2 -> BusRead(m, m.cpu.pc)
      [] m.p.cycle = 3 -> BusRead(m, m.cpu.sp + 256)
      [] m.p.cycle = 4 -> Finish(lda(stack_pull(m)))   \* acc, then N and Z from it
      [] OTHER -> m

plp(m) ==
    CASE m.p.cycle = 2 -> BusRead(m, m.cpu.pc)
      [] m.p.cycle = 3 -> BusRead(m, m.cpu.sp + 256)
      [] m.p.cycle = 4 -> Finish(Keep(stack_pull(m), "status"))
      [] OTHER -> m

rti(m) ==
    CASE m.p.cycle = 2 -> Fetch(m)
      [] m.p.cycle = 3 -> BusRead(m, 256 + m.cpu.sp)
      [] m.p.cycle = 4 -> Keep(stack_pull(m), "status")
      [] m.p.cycle = 5 -> Keep(stack_pull(m), "tmp0")
      [] m.p.cycle = 6 -> Finish(Jump(Keep(stack_pull(m), "tmp1")))
      [] OTHER -> m

rts(m) ==
    CASE m.p.cycle = 2 -> Fetch(m)
      [] m.p.cycle = 3 -> BusRead(m, 256 + m.cpu.sp)
      [] m.p.cycle = 4 -> Keep(stack_pull(m), "tmp0")
      [] m.p.cycle = 5 -> Keep(stack_pull(m), "tmp1")
      [] m.p.cycle = 6 ->
            LET sum == addr_concat(m.p.tmp1, m.p.tmp0) + 1
                c == [Checked(m, sum, 65536) EXCEPT !.cpu.pc = U16(sum)]
            IN  Finish(BusRead(c, c.cpu.pc))
      [] OTHER -> m

\* anc, ane, arr, asr, lxa, sbx, sha, shs, shx, shy: `unimplemented!()`
unimplemented(m) == Panic(m, "unimplemented instruction")

(***************************************************************************)
(* The CPU cycle pump.                                                     *)
(***************************************************************************)
\* `procedure: None`
NoProcedure ==
    [done |-> FALSE, func |-> "none", mode |-> "Auto", cycle |-> 0,
     tmp0 |-> 0, tmp1 |-> 0, tmp_addr |-> 0]

\* InstructionProcedure::new
new(step_func, addr_mode) ==
    [done |-> FALSE, func |-> step_func, mode |-> addr_mode, cycle |-> 1,
     tmp0 |-> 0, tmp1 |-> 0, tmp_addr |-> 0]

\* the `match opcode` of Cpu::cycle as a table: entry opcode + 1 is (step function,
\* addressing mode); "invalid" marks the opcodes the match leaves to its `_ => panic!` arm
DecodeTable ==
    <<<<"brk", "Auto">>, <<"ora", "IndirectX">>, <<"invalid", "Auto">>, <<"slo", "IndirectX">>,
      <<"nop", "Zero">>, <<"ora", "Zero">>, <<"asl", "Zero">>, <<"slo", "Zero">>,
      <<"php", "Implied">>, <<"ora", "Immediate">>, <<"asl", "Accumulator">>, <<"anc", "Auto">>,
      <<"nop", "Absolute">>, <<"ora", "Absolute">>, <<"asl", "Absolute">>, <<"slo", "Absolute">>,
      <<"bpl", "Relative">>, <<"ora", "IndirectY">>, <<"invalid", "Auto">>, <<"slo", "IndirectY">>,
      <<"nop", "ZeroX">>, <<"ora", "ZeroX">>, <<"asl", "ZeroX">>, <<"slo", "ZeroX">>,
      <<"clc", "Implied">>, <<"ora", "AbsoluteY">>, <<"nop", "Implied">>, <<"slo", "AbsoluteY">>,
      <<"nop", "AbsoluteX">>, <<"ora", "AbsoluteX">>, <<"asl", "AbsoluteX">>, <<"slo", "AbsoluteX">>,
      <<"jsr", "Auto">>, <<"and", "IndirectX">>, <<"invalid", "Auto">>, <<"rla", "IndirectX">>,
      <<"bit", "Zero">>, <<"and", "Zero">>, <<"rol", "Zero">>, <<"rla", "Zero">>,
      <<"plp", "Implied">>, <<"and", "Immediate">>, <<"rol", "Accumulator">>, <<"anc", "Auto">>,
      <<"bit", "Absolute">>, <<"and", "Absolute">>, <<"rol", "Absolute">>, <<"rla", "Absolute">>,
      <<"bmi", "Relative">>, <<"and", "IndirectY">>, <<"invalid", "Auto">>, <<"rla", "IndirectY">>,
      <<"nop", "ZeroX">>, <<"and", "ZeroX">>, <<"rol", "ZeroX">>, <<"rla", "ZeroX">>,
      <<"sec", "Implied">>, <<"and", "AbsoluteY">>, <<"nop", "Implied">>, <<"rla", "AbsoluteY">>,
      <<"nop", "AbsoluteX">>, <<"and", "AbsoluteX">>, <<"rol", "AbsoluteX">>, <<"rla", "AbsoluteX">>,
      <<"rti", "Auto">>, <<"eor", "IndirectX">>, <<"invalid", "Auto">>, <<"sre", "IndirectX">>,
      <<"nop", "Zero">>, <<"eor", "Zero">>, <<"lsr", "Zero">>, <<"sre", "Zero">>,
      <<"pha", "Implied">>, <<"eor", "Immediate">>, <<"lsr", "Accumulator">>, <<"asr", "Auto">>,
      <<"jmp", "Absolute">>, <<"eor", "Absolute">>, <<"lsr", "Absolute">>, <<"sre", "Absolute">>,
      <<"bvc", "Relative">>, <<"eor", "IndirectY">>, <<"invalid", "Auto">>, <<"sre", "IndirectY">>,
      <<"nop", "ZeroX">>, <<"eor", "ZeroX">>, <<"lsr", "ZeroX">>, <<"sre", "ZeroX">>,
      <<"cli", "Auto">>, <<"eor", "AbsoluteY">>, <<"nop", "Implied">>, <<"sre", "AbsoluteY">>,
      <<"nop", "AbsoluteX">>, <<"eor", "AbsoluteX">>, <<"lsr", "AbsoluteX">>, <<"sre", "AbsoluteX">>,
      <<"rts", "Implied">>, <<"adc", "IndirectX">>, <<"invalid", "Auto">>, <<"rra", "IndirectX">>,
      <<"nop", "Zero">>, <<"adc", "Zero">>, <<"ror", "Zero">>, <<"rra", "Zero">>,
      <<"pla", "Implied">>, <<"adc", "Immediate">>, <<"ror", "Accumulator">>, <<"arr", "Auto">>,
      <<"jmp", "Indirect">>, <<"adc", "Absolute">>, <<"ror", "Absolute">>, <<"rra", "Absolute">>,
      <<"bvs", "Relative">>, <<"adc", "IndirectY">>, <<"invalid", "Auto">>, <<"rra", "IndirectY">>,
      <<"nop", "ZeroX">>, <<"adc", "ZeroX">>, <<"ror", "ZeroX">>, <<"rra", "ZeroX">>,
      <<"sei", "Auto">>, <<"adc", "AbsoluteY">>, <<"nop", "Implied">>, <<"rra", "AbsoluteY">>,
      <<"nop", "AbsoluteX">>, <<"adc", "AbsoluteX">>, <<"ror", "AbsoluteX">>, <<"rra", "AbsoluteX">>,
      <<"nop", "Immediate">>, <<"sta", "IndirectX">>, <<"nop", "Immediate">>, <<"sax", "IndirectX">>,
      <<"sty", "Zero">>, <<"sta", "Zero">>, <<"stx", "Zero">>, <<"sax", "Zero">>,
      <<"dey", "Implied">>, <<"nop", "Immediate">>, <<"txa", "Implied">>, <<"ane", "Auto">>,
      <<"sty", "Absolute">>, <<"sta", "Absolute">>, <<"stx", "Absolute">>, <<"sax", "Absolute">>,
      <<"bcc", "Relative">>, <<"sta", "IndirectY">>, <<"invalid", "Auto">>, <<"sha", "IndirectY">>,
      <<"sty", "ZeroX">>, <<"sta", "ZeroX">>, <<"stx", "ZeroY">>, <<"sax", "ZeroY">>,
      <<"tya", "Implied">>, <<"sta", "AbsoluteY">>, <<"txs", "Implied">>, <<"shs", "Auto">>,
      <<"shy", "Auto">>, <<"sta", "AbsoluteX">>, <<"shx", "Auto">>, <<"sha", "AbsoluteY">>,
      <<"ldy", "Immediate">>, <<"lda", "IndirectX">>, <<"ldx", "Immediate">>, <<"lax", "IndirectX">>,
      <<"ldy", "Zero">>, <<"lda", "Zero">>, <<"ldx", "Zero">>, <<"lax", "Zero">>,
      <<"tay", "Implied">>, <<"lda", "Immediate">>, <<"tax", "Implied">>, <<"lxa", "Auto">>,
      <<"ldy", "Absolute">>, <<"lda", "Absolute">>, <<"ldx", "Absolute">>, <<"lax", "Absolute">>,
      <<"bcs", "Relative">>, <<"lda", "IndirectY">>, <<"invalid", "Auto">>, <<"lax", "IndirectY">>,
      <<"ldy", "ZeroX">>, <<"lda", "ZeroX">>, <<"ldx", "ZeroY">>, <<"lax", "ZeroY">>,
      <<"clv", "Implied">>, <<"lda", "AbsoluteY">>, <<"tsx", "Implied">>, <<"las", "AbsoluteY">>,
      <<"ldy", "AbsoluteX">>, <<"lda", "AbsoluteX">>, <<"ldx", "AbsoluteY">>, <<"lax", "AbsoluteY">>,
      <<"cpy", "Immediate">>, <<"cmp", "IndirectX">>, <<"nop", "Immediate">>, <<"dcp", "IndirectX">>,
      <<"cpy", "Zero">>, <<"cmp", "Zero">>, <<"dec", "Zero">>, <<"dcp", "Zero">>,
      <<"iny", "Implied">>, <<"cmp", "Immediate">>, <<"dex", "Implied">>, <<"sbx", "Auto">>,
      <<"cpy", "Absolute">>, <<"cmp", "Absolute">>, <<"dec", "Absolute">>, <<"dcp", "Absolute">>,
      <<"bne", "Relative">>, <<"cmp", "IndirectY">>, <<"invalid", "Auto">>, <<"dcp", "IndirectY">>,
      <<"nop", "ZeroX">>, <<"cmp", "ZeroX">>, <<"dec", "ZeroX">>, <<"dcp", "ZeroX">>,
      <<"cld", "Auto">>, <<"cmp", "AbsoluteY">>, <<"nop", "Implied">>, <<"dcp", "AbsoluteY">>,
      <<"nop", "AbsoluteX">>, <<"cmp", "AbsoluteX">>, <<"dec", "AbsoluteX">>, <<"dcp", "AbsoluteX">>,
      <<"cpx", "Immediate">>, <<"sbc", "IndirectX">>, <<"nop", "Immediate">>, <<"isb", "IndirectX">>,
      <<"cpx", "Zero">>, <<"sbc", "Zero">>, <<"inc", "Zero">>, <<"isb", "Zero">>,
      <<"inx", "Implied">>, <<"sbc", "Immediate">>, <<"nop", "Implied">>, <<"sbc", "Immediate">>,
      <<"cpx", "Absolute">>, <<"sbc", "Absolute">>, <<"inc", "Absolute">>, <<"isb", "Absolute">>,
      <<"beq", "Relative">>, <<"sbc", "IndirectY">>, <<"invalid", "Auto">>, <<"isb", "IndirectY">>,
      <<"nop", "ZeroX">>, <<"sbc", "ZeroX">>, <<"inc", "ZeroX">>, <<"isb", "ZeroX">>,
      <<"sed", "Auto">>, <<"sbc", "AbsoluteY">>, <<"nop", "Implied">>, <<"isb", "AbsoluteY">>,
      <<"nop", "AbsoluteX">>, <<"sbc", "AbsoluteX">>, <<"inc", "AbsoluteX">>, <<"isb", "AbsoluteX">>>>

\* the read instructions: `let data = bus.read(addr)` and the registers and flags
ReadFuncs ==
    {"adc", "and", "bit", "cmp", "cpx", "cpy", "eor", "las", "lda", "ldx", "ldy", "ora", "sbc"}

\* the instructions that use the address themselves
AddrFuncs == {"lax", "nop", "sax", "sta", "stx", "sty"}

\* the read-modify-write instructions
ModifyFuncs ==
    {"asl", "lsr", "rol", "ror", "dcp", "dec", "inc", "isb", "rla", "rra", "slo", "sre"}

\* the instructions that work on registers alone, at cycle 2
RegisterFuncs ==
    {"clc", "cld", "cli", "clv", "sec", "sed", "sei",
     "dex", "dey", "inx", "iny", "tax", "tay", "tsx", "txa", "txs", "tya"}

\* `if procedure.mode == AddrMode::Accumulator` of the shifts and rotates,
\* `AddrMode::Implied` of nop: these forms work at cycle 2 as well
OnRegisters(m) ==
    \/ m.p.func \in RegisterFuncs
    \/ m.p.func \in {"asl", "lsr", "rol", "ror"} /\ m.p.mode = "Accumulator"
    \/ m.p.func = "nop" /\ m.p.mode = "Implied"

BranchFuncs == {"bcc", "bcs", "beq", "bmi", "bne", "bpl", "bvc", "bvs"}

\* the registers and flags a read, read-modify-write or register instruction sets
Operate(r) ==
    CASE r.p.func = "adc" -> adc(r) [] r.p.func = "and" -> and(r) [] r.p.func = "bit" -> bit(r)
      [] r.p.func = "cmp" -> cmp(r) [] r.p.func = "cpx" -> cpx(r) [] r.p.func = "cpy" -> cpy(r)
      [] r.p.func = "eor" -> eor(r) [] r.p.func = "las" -> las(r) [] r.p.func = "lda" -> lda(r)
      [] r.p.func = "ldx" -> ldx(r) [] r.p.func = "ldy" -> ldy(r) [] r.p.func = "ora" -> ora(r)
      [] r.p.func = "sbc" -> sbc(r)
      [] r.p.func = "asl" -> asl(r) [] r.p.func = "lsr" -> lsr(r) [] r.p.func = "rol" -> rol(r)
      [] r.p.func = "ror" -> ror(r) [] r.p.func = "dcp" -> dcp(r) [] r.p.func = "dec" -> dec(r)
      [] r.p.func = "inc" -> inc(r) [] r.p.func = "isb" -> isb(r) [] r.p.func = "rla" -> rla(r)
      [] r.p.func = "rra" -> rra(r) [] r.p.func = "slo" -> slo(r) [] r.p.func = "sre" -> sre(r)
      [] r.p.func = "clc" -> clc(r) [] r.p.func = "cld" -> cld(r) [] r.p.func = "cli" -> cli(r)
      [] r.p.func = "clv" -> clv(r) [] r.p.func = "sec" -> sec(r) [] r.p.func = "sed" -> sed(r)
      [] r.p.func = "sei" -> sei(r) [] r.p.func = "dex" -> dex(r) [] r.p.func = "dey" -> dey(r)
      [] r.p.func = "inx" -> inx(r) [] r.p.func = "iny" -> iny(r) [] r.p.func = "tax" -> tax(r)
      [] r.p.func = "tay" -> tay(r) [] r.p.func = "tsx" -> tsx(r) [] r.p.func = "txa" -> txa(r)
      [] r.p.func = "txs" -> txs(r) [] r.p.func = "tya" -> tya(r)
      [] r.p.func = "nop" -> r

\* `if let Some(addr) = effective_addr(..) { .. }`, e being the machine after
\* effective_addr: nothing more before the access cycle; on it a read
\* instruction reads its operand, sets its registers, prefetches and is done
OnAddress(e) ==
    CASE e.ret = None -> e
      [] e.p.func \in ReadFuncs -> Finish(Operate(BusRead(e, e.ret)))
      [] e.p.func = "lax" -> lax(e)
      [] e.p.func = "sax" -> sax(e)
      [] e.p.func = "sta" -> sta(e)
      [] e.p.func = "stx" -> stx(e)
      [] e.p.func = "sty" -> sty(e)
      [] OTHER -> Finish(e)                                             \* nop

\* `bus.write(addr, procedure.tmp0); cpu.prefetch = Some(cpu.fetch(bus)); procedure.done = true`
WriteBack(m, addr) == Finish(BusWrite(m, addr, m.p.tmp0))

\* `if let Some(addr) = read_modify_write(..) { .. }`, r being the machine
\* after read_modify_write
OnModify(r) == IF r.ret = None THEN r ELSE WriteBack(Operate(r), r.ret)

\* the step function the procedure holds, called on the machine
Exec(m) ==
    CASE OnRegisters(m) ->
            IF m.p.cycle = 2 THEN Finish(Operate(m)) ELSE m
      [] m.p.func \in ReadFuncs \cup AddrFuncs -> OnAddress(effective_addr(m))
      [] m.p.func \in ModifyFuncs -> OnModify(read_modify_write(m))
      [] m.p.func \in BranchFuncs -> branch(m, to_branch(m))
      [] m.p.func = "brk" -> brk(m) [] m.p.func = "jmp" -> jmp(m) [] m.p.func = "jsr" -> jsr(m)
      [] m.p.func = "pha" -> pha(m) [] m.p.func = "php" -> php(m) [] m.p.func = "pla" -> pla(m)
      [] m.p.func = "plp" -> plp(m) [] m.p.func = "rti" -> rti(m) [] m.p.func = "rts" -> rts(m)
      [] m.p.func \in {"anc", "ane", "arr", "asr", "lxa", "sbx", "sha", "shs", "shx", "shy"} ->
            unimplemented(m)
      [] OTHER -> m

\* InstructionProcedure::step
step(m) == [Exec(m) EXCEPT !.p.cycle = @ + 1]

\* the `if self.procedure.is_none() { .. }` block of Cpu::cycle
Decode(m) ==
    IF m.cpu.procedure.func # "none" THEN m
    ELSE IF m.cpu.prefetch = None THEN Panic(m, "prefetch should always occur")
    ELSE LET opcode == m.cpu.prefetch
             entry == DecodeTable[opcode + 1]
             c == [m EXCEPT !.cpu.prefetch = None, !.decoded = TRUE]
         IN  IF entry[1] = "invalid"
             THEN Panic(c, "attempt to run invalid/unimplemented opcode")
             ELSE [c EXCEPT !.cpu.procedure = new(entry[1], entry[2]),
                            !.cpu.fetch_needed = FALSE]

\* `let mut proc = self.procedure.take()`: the procedure the step works on
Take(d) == [d EXCEPT !.p = d.cpu.procedure]

\* the end of Cpu::cycle, s being the machine after the step: the procedure
\* is kept unless it is done, and `self.cyc += 1`
Retire(s) ==
    [s EXCEPT !.cpu.procedure = IF s.p.done THEN NoProcedure ELSE s.p,
              !.cpu.cyc = @ + 1,
              !.ran = TRUE]

\* Cpu::cycle
Cpu_cycle(m) == IF ~m.cpu.rdy THEN m ELSE Retire(step(Take(Decode(m))))

\* Cpu::tick, with ClockDivider<12>::tick
Cpu_tick(m) ==
    IF m.cpu.clock_divider + 1 = 12
    THEN Cpu_cycle([m EXCEPT !.cpu.clock_divider = 0])
    ELSE [m EXCEPT !.cpu.clock_divider = @ + 1]

(***************************************************************************)
(* The PPU dot pump.  The frame buffer fb and the colour table pal_values  *)
(* hold only the picture; no operation of the emulator core reads them     *)
(* back, so the model keeps the faults of draw_pixel and not its pixels.   *)
(***************************************************************************)
\* PixelPos::inc without the step over dot 0 of an odd frame
pos_inc_NoSkip(pos) ==
    IF pos.cycle + 1 # 341 THEN [pos EXCEPT !.cycle = @ + 1]
    ELSE IF pos.scanline + 1 # 262 THEN [pos EXCEPT !.cycle = 0, !.scanline = @ + 1]
    ELSE [cycle |-> 0, scanline |-> 0, is_odd |-> ~pos.is_odd]

\* PixelPos::inc
pos_inc(pos) ==
    IF pos.cycle + 1 # 341 THEN [pos EXCEPT !.cycle = @ + 1]
    ELSE IF pos.scanline + 1 # 262 THEN [pos EXCEPT !.cycle = 0, !.scanline = @ + 1]
    ELSE [cycle |-> IF ~pos.is_odd THEN 1 ELSE 0, scanline |-> 0, is_odd |-> ~pos.is_odd]

\* VramAddr::increment_coarse_x
increment_coarse_x(v) ==
    IF coarse_x(v) = 31 THEN BitXor(set_coarse_x(v, 0), 1024) ELSE v + 1

\* increment_fine_y with the wrap of coarse Y from 31 switching the nametable
increment_fine_y_FlipAt31(v) ==
    IF fine_y(v) = 7
    THEN LET z == set_fine_y(v, 0) IN
         IF coarse_y(z) = 29 \/ coarse_y(z) = 31 THEN BitXor(set_coarse_y(z, 0), 2048)
         ELSE set_coarse_y(z, coarse_y(z) + 1)
    ELSE set_fine_y(v, fine_y(v) + 1)

\* VramAddr::increment_fine_y
increment_fine_y(v) ==
    IF fine_y(v) = 7
    THEN LET z == set_fine_y(v, 0) IN
         IF coarse_y(z) = 29 THEN BitXor(set_coarse_y(z, 0), 2048)
         ELSE IF coarse_y(z) = 31 THEN set_coarse_y(z, 0)
         ELSE set_coarse_y(z, coarse_y(z) + 1)
    ELSE set_fine_y(v, fine_y(v) + 1)

\* `mask.show_background() || mask.show_sprites()`
Rendering(m) == show_background(m.ppu.mask) \/ show_sprites(m.ppu.mask)

\* `(background_pattern_addr << 12) | (nametable_lat << 4) | plane | fine_y`
PatternAddr(m, plane) ==
    BitOr(BitOr(BitOr(4096 * background_pattern_addr(m.ppu.ctrl), 16 * m.ppu.nametable_lat),
                plane),
          fine_y(m.ppu.vram_addr))

\* the `match cycle % 8` of dots 1..=256
TileFetch(m, cycle) ==
    LET v == m.ppu.vram_addr
        r == PpuRead(m, m.ppu.internal_bus_addr)
    IN  CASE cycle % 8 = 1 -> [m EXCEPT !.ppu.internal_bus_addr = BitOr(8192, v % 4096)]
          [] cycle % 8 = 2 -> [r EXCEPT !.ppu.nametable_lat = r.ret]
          [] cycle % 8 = 3 ->
                [m EXCEPT !.ppu.internal_bus_addr =
                    BitOr(BitOr(BitOr(9152, BitAnd(v, 3072)), BitAnd(v \div 16, 56)),
                          BitAnd(v \div 4, 7))]
          [] cycle % 8 = 4 -> [r EXCEPT !.ppu.attribute_lat = r.ret]
          [] cycle % 8 = 5 -> [m EXCEPT !.ppu.internal_bus_addr = PatternAddr(m, 0)]
          [] cycle % 8 = 6 -> [r EXCEPT !.ppu.pattern_lower_lat = r.ret]
          [] cycle % 8 = 7 -> [m EXCEPT !.ppu.internal_bus_addr = PatternAddr(m, 8)]
          [] OTHER ->
                LET u == [r EXCEPT !.ppu.pattern_upper_lat = r.ret,
                                   !.ppu.vram_addr = increment_coarse_x(@)]
                IN  IF cycle # 1
                    THEN [u EXCEPT !.ppu.shift_attrib = u.ppu.attribute_lat,
                                   !.ppu.shift_lower =
                                       BitOr(BitAnd(@, 65280), u.ppu.pattern_lower_lat),
                                   !.ppu.shift_upper =
                                       BitOr(BitAnd(@, 65280), u.ppu.pattern_upper_lat)]
                    ELSE u

\* the `0..=239 | 261` arm of Ppu::cycle
RenderLine(m, line, cycle) ==
    LET a == IF line = 261 /\ cycle = 1 THEN [m EXCEPT !.ppu.vblank = FALSE] ELSE m
        b == IF line = 261 /\ cycle >= 280 /\ cycle <= 304 /\ Rendering(a)
             THEN [a EXCEPT !.ppu.vram_addr =
                       BitOr(BitAnd(@, 33823), BitAnd(a.ppu.tmp_vram_addr, 33823))]
             ELSE a
        c == IF Rendering(b) /\ cycle = 0
             THEN [b EXCEPT !.ppu.internal_bus_addr = PatternAddr(b, 0)]
             ELSE b
        d == IF Rendering(c) /\ cycle >= 1 /\ cycle <= 256 THEN TileFetch(c, cycle) ELSE c
        e == IF Rendering(b) /\ cycle = 256
             THEN [d EXCEPT !.ppu.vram_addr = increment_fine_y(@)]
             ELSE d
        f == IF Rendering(b) /\ cycle = 257
             THEN [e EXCEPT !.ppu.vram_addr =
                       BitOr(BitAnd(@, 64480), BitAnd(e.ppu.tmp_vram_addr, 64480))]
             ELSE e
    IN  IF cycle >= 2 /\ cycle <= 337
        THEN [f EXCEPT !.ppu.shift_lower = BitOr(U16(2 * @), 1),
                       !.ppu.shift_upper = BitOr(U16(2 * @), 1)]
        ELSE f

\* Ppu::draw_pixel
draw_pixel(m) ==
    LET x_sum == BitOr(8 * coarse_x(m.ppu.vram_addr), m.ppu.fine_x_scroll)
                 + (m.ppu.pos.cycle % 8)
        c1 == Checked(m, x_sum, 256)
        c2 == Checked(c1, U8(x_sum) - 17, 256)
        c3 == Checked(c2, m.ppu.pos.cycle - 1, 65536)
        index == (m.ppu.pos.scanline * 256 + m.ppu.pos.cycle) - 15
    IN  IF index < 0 /\ m.checks THEN Panic(c3, "overflow") ELSE c3

\* the `if rendering { self.draw_pixel() }` of Ppu::cycle
Pixel(a) == IF Rendering(a) THEN draw_pixel(a) ELSE a

\* the end of Ppu::cycle, b being the machine after the dot: `self.pos.inc()`,
\* `self.cycles_since_pwrrst += 1` and the unlock of ctrl after 30000 dots
Advance(b) ==
    [b EXCEPT !.ppu.pos = pos_inc(@),
              !.ppu.cycles_since_pwrrst = @ + 1,
              !.ppu.ctrl_unlocked = @ \/ b.ppu.cycles_since_pwrrst + 1 >= 30000]

\* Ppu::cycle
Ppu_cycle(m) ==
    Advance(Pixel(
        IF m.ppu.pos.scanline <= 239 \/ m.ppu.pos.scanline = 261
        THEN RenderLine(m, m.ppu.pos.scanline, m.ppu.pos.cycle)
        ELSE IF m.ppu.pos.scanline = 241 /\ m.ppu.pos.cycle = 1
        THEN update_nmi_output([m EXCEPT !.ppu.vblank = TRUE])
        ELSE m))

\* Ppu::tick with a divider that fires every third tick
Ppu_tick_EveryThird(m) ==
    IF m.ppu.clock_divider + 1 = 3
    THEN Ppu_cycle([m EXCEPT !.ppu.clock_divider = 0])
    ELSE [m EXCEPT !.ppu.clock_divider = @ + 1]

\* Ppu::tick, with ClockDivider<4>::tick
Ppu_tick(m) ==
    IF m.ppu.clock_divider + 1 = 4
    THEN Ppu_cycle([m EXCEPT !.ppu.clock_divider = 0])
    ELSE [m EXCEPT !.ppu.clock_divider = @ + 1]

\* Nes::tick with the two calls in the other order
tick_PpuFirst(m) == Cpu_tick(Ppu_tick(m))

\* Nes::tick
tick(m) == Ppu_tick(Cpu_tick(m))

(***************************************************************************)
(* State after construction and the states a running program reaches.      *)
(***************************************************************************)
\* Cpu::default, with the line fields of arch.rs and ppu.rs:
\* predecode (Nes::read, Nes::write) and nmi (active low, so high at rest)
CpuDefault ==
    [wram |-> MemFill(0), pc |-> 0, sp |-> 253, status |-> StatusDefault,
     acc |-> 0, x |-> 0, y |-> 0, rdy |-> TRUE, prefetch |-> None,
     fetch_needed |-> FALSE, procedure |-> NoProcedure, clock_divider |-> 0,
     cyc |-> 0, predecode |-> 0, nmi |-> TRUE]

\* PixelPos::default
PixelPosDefault == [cycle |-> 0, scanline |-> 261, is_odd |-> TRUE]

\* Ppu::default
PpuDefault ==
    [ports_latch |-> 0, cycles_since_pwrrst |-> 0, ctrl_unlocked |-> FALSE,
     write_toggle |-> FALSE, ctrl |-> 0, mask |-> 0, oam_addr |-> 0,
     fine_x_scroll |-> 0, vram_addr |-> 0, tmp_vram_addr |-> 0,
     internal_bus_addr |-> 0, nametable_lat |-> 0, attribute_lat |-> 0,
     pattern_lower_lat |-> 0, pattern_upper_lat |-> 0, shift_attrib |-> 0,
     shift_lower |-> 0, shift_upper |-> 0, clock_divider |-> 0,
     pos |-> PixelPosDefault, vblank |-> FALSE,
     ciram |-> MemFill(0), palettes |-> MemFill(0)]

\* Mapper000::new: PRG RAM zeroed, PRG ROM and CHR ROM from the ROM file
Mapper000(prg, chr) ==
    [mapper |-> "Mapper000", prg_ram |-> MemFill(0), prg_rom |-> prg, chr_rom |-> chr]

\* Nes::default
NesDefault ==
    [cpu |-> CpuDefault, ppu |-> PpuDefault,
     cart |-> [mapper |-> "DummyMapper", prg_ram |-> MemFill(0),
               prg_rom |-> MemFill(0), chr_rom |-> MemFill(0)],
     last_bus |-> <<0, 0, FALSE>>]

\* the machine a call works on: the Nes n in a build with or without overflow checks
Machine(n, checks) ==
    [cpu |-> n.cpu, ppu |-> n.ppu, cart |-> n.cart, last_bus |-> n.last_bus,
     log |-> <<>>, fault |-> "none", checks |-> checks, p |-> NoProcedure,
     ret |-> None, ran |-> FALSE, decoded |-> FALSE]

\* the Nes the call leaves
NesOf(m) == [cpu |-> m.cpu, ppu |-> m.ppu, cart |-> m.cart, last_bus |-> m.last_bus]

\* Cpu::init_pc
init_pc(m) ==
    LET hi == read_cpu(m, 65533)
        lo == read_cpu(hi, 65532)
    IN  Prefetch([lo EXCEPT !.cpu.pc = addr_concat(hi.ret, lo.ret)])

\* Nes::load_rom on a ROM file of mapper 0
load_rom(m, prg, chr) == init_pc([m EXCEPT !.cart = Mapper000(prg, chr)])

\* a sequence of bytes placed in a memory from address `base` on
Place(mem, base, bytes) ==
    [mem EXCEPT !.at = [a \in {base + i - 1 : i \in 1..Len(bytes)} |-> bytes[a - base + 1]] @@ @]

(***************************************************************************)
(* Actions: one call of Cpu::cycle (the stepping of the instruction tests) *)
(* and one call of Nes::tick (the main loop).  A run uses one of the two.  *)
(***************************************************************************)
\* what the observation variables record of a call that left machine m:
\* a CPU cycle adds its bus accesses, last_bus and the NMI line after it to
\* the trace of the running instruction; a decode starts a new trace and
\* notes the Nes before it and the NMI line as the instruction before left it
Observe(m) ==
    IF ~m.ran THEN UNCHANGED <<trace, decodes, retired>>
    ELSE /\ trace' = (IF m.decoded THEN <<>> ELSE trace)
                     \o <<[log |-> m.log, last_bus |-> m.last_bus, nmi |-> m.cpu.nmi]>>
         /\ decodes' = (IF m.decoded
                        THEN Append(decodes,
                                    [at |-> nes,
                                     line |-> IF trace = <<>> THEN TRUE
                                              ELSE trace[Len(trace)].nmi])
                        ELSE decodes)
         /\ retired' = retired + (IF m.cpu.procedure.func = "none" THEN 1 ELSE 0)

\* the state after a call that left machine m: a panic ends the run
Commit(m) ==
    /\ UNCHANGED <<overflow_checks, driver>>
    /\ IF m.fault # "none"
       THEN fault' = m.fault /\ UNCHANGED <<nes, trace, decodes, retired>>
       ELSE nes' = NesOf(m) /\ UNCHANGED fault /\ Observe(m)

CpuCycle ==
    /\ driver = "Cpu::cycle"
    /\ fault = "none"
    /\ retired < MaxInstr
    /\ Commit(Cpu_cycle(Machine(nes, overflow_checks)))

Tick ==
    /\ driver = "Nes::tick"
    /\ fault = "none"
    /\ retired < MaxInstr
    /\ Commit(tick(Machine(nes, overflow_checks)))

Next == CpuCycle \/ Tick

(***************************************************************************)
(* Specifications.  Each starts from states the program reaches and runs   *)
(* at most MaxInstr instructions.                                          *)
(***************************************************************************)
\* a running program at an instruction boundary: PRG ROM prg on mapper 0,
\* work RAM wram, the registers as earlier instructions left them, and the
\* opcode at `base` prefetched by the instruction before
Running(prg, wram, base, a, x, y, sp, status) ==
    LET n == [NesDefault EXCEPT !.cart = Mapper000(prg, MemFill(0)),
                                !.cpu.wram = wram, !.cpu.pc = base,
                                !.cpu.acc = a, !.cpu.x = x, !.cpu.y = y,
                                !.cpu.sp = sp, !.cpu.status = status]
    IN  NesOf(Prefetch(Machine(n, FALSE)))

\* the observation variables at the start of a run
Fresh == fault = "none" /\ trace = <<>> /\ decodes = <<>> /\ retired = 0

\* the run is stepped by calls of Cpu::cycle, as the instruction tests do
\* (main.rs 499-576), or by calls of Nes::tick, as the main loop does (main.rs 179)
Stepped == driver = "Cpu::cycle"
Ticked == driver = "Nes::tick"

\* a PRG ROM of NOPs
NopRom == MemFill(234)

\* Timing runs: every opcode byte, at the start and near the end of a ROM
\* page, with operands and index registers that do and do not carry into the
\* next page, both values of every flag, and both builds
TimingOperands == {16, 240}
TimingIndexes == {2, 32}
TimingStatuses == {36, 231}
TimingBases == {32768, 33008}

InitTiming ==
    \E opcode \in 0..255, op1 \in TimingOperands, index \in TimingIndexes,
       status \in TimingStatuses, base \in TimingBases, checks \in BOOLEAN :
        /\ nes = Running(Place(NopRom, base - 32768, <<opcode, op1, 3>>),
                         Place(MemFill(1), 16, <<240, 3>>),
                         base, 129, index, index, 253, status)
        /\ overflow_checks = checks
        /\ Stepped
        /\ Fresh

SpecTiming == InitTiming /\ [][CpuCycle]_vars

(***************************************************************************)
(* What a run shows of the instruction that ran last.                      *)
(***************************************************************************)
\* the cycle that marked the instruction done has just run
InstrDone == fault = "none" /\ trace # <<>> /\ nes.cpu.procedure.func = "none"

\* the Nes before the decode cycle of the instruction decoded last
Cur == decodes[Len(decodes)].at

\* a byte of CPU memory, read without touching the bus
Peek(n, addr) ==
    IF addr <= 8191 THEN MemGet(n.cpu.wram, addr % 2048)
    ELSE IF addr >= 32768 THEN MemGet(n.cart.prg_rom, addr % 32768)
    ELSE IF addr >= 24576 THEN MemGet(n.cart.prg_ram, addr % 8192)
    ELSE 0

\* the opcode, its address and its two operand bytes
Opcode == Cur.cpu.prefetch
OpcodeAddr == U16(Cur.cpu.pc + 65535)
Operand1 == Peek(Cur, Cur.cpu.pc)
Operand2 == Peek(Cur, U16(Cur.cpu.pc + 1))

\* the CPU cycles of the instruction so far
Cycles == Len(trace)

(***************************************************************************)
(* The official 6502 timing, from the data sheet and not from the code.    *)
(***************************************************************************)
\* cycles per opcode byte without page-cross and branch penalties; 0 marks
\* the opcodes that halt the processor
OfficialCycles ==
    <<7, 6, 0, 8, 3, 3, 5, 5, 3, 2, 2, 2, 4, 4, 6, 6,
      2, 5, 0, 8, 4, 4, 6, 6, 2, 4, 2, 7, 4, 4, 7, 7,
      6, 6, 0, 8, 3, 3, 5, 5, 4, 2, 2, 2, 4, 4, 6, 6,
      2, 5, 0, 8, 4, 4, 6, 6, 2, 4, 2, 7, 4, 4, 7, 7,
      6, 6, 0, 8, 3, 3, 5, 5, 3, 2, 2, 2, 3, 4, 6, 6,
      2, 5, 0, 8, 4, 4, 6, 6, 2, 4, 2, 7, 4, 4, 7, 7,
      6, 6, 0, 8, 3, 3, 5, 5, 4, 2, 2, 2, 5, 4, 6, 6,
      2, 5, 0, 8, 4, 4, 6, 6, 2, 4, 2, 7, 4, 4, 7, 7,
      2, 6, 2, 6, 3, 3, 3, 3, 2, 2, 2, 2, 4, 4, 4, 4,
      2, 6, 0, 6, 4, 4, 4, 4, 2, 5, 2, 5, 5, 5, 5, 5,
      2, 6, 2, 6, 3, 3, 3, 3, 2, 2, 2, 2, 4, 4, 4, 4,
      2, 5, 0, 5, 4, 4, 4, 4, 2, 4, 2, 4, 4, 4, 4, 4,
      2, 6, 2, 8, 3, 3, 5, 5, 2, 2, 2, 2, 4, 4, 6, 6,
      2, 5, 0, 8, 4, 4, 6, 6, 2, 4, 2, 7, 4, 4, 7, 7,
      2, 6, 2, 8, 3, 3, 5, 5, 2, 2, 2, 2, 4, 4, 6, 6,
      2, 5, 0, 8, 4, 4, 6, 6, 2, 4, 2, 7, 4, 4, 7, 7>>

\* the read instructions in Absolute,X, Absolute,Y and (Indirect),Y mode
AbsXReads == {28, 60, 92, 124, 220, 252, 29, 61, 93, 125, 188, 189, 221, 253}
AbsYReads == {25, 57, 89, 121, 185, 187, 190, 191, 217, 249}
IndYReads == {17, 49, 81, 113, 177, 179, 209, 241}

\* adding the index to the low address byte carries into the high byte
IndexCarries ==
    CASE Opcode \in AbsXReads -> Operand1 + Cur.cpu.x >= 256
      [] Opcode \in AbsYReads -> Operand1 + Cur.cpu.y >= 256
      [] Opcode \in IndYReads -> Peek(Cur, Operand1) + Cur.cpu.y >= 256
      [] OTHER -> FALSE

\* the conditional branches: BPL BMI BVC BVS BCC BCS BNE BEQ
Branches == {16, 48, 80, 112, 144, 176, 208, 240}

\* the branch condition holds: bits 7-6 of the opcode pick the flag
\* (N, V, C, Z), bit 5 the value it is compared with
BranchTaken ==
    LET flag == <<Negative, Overflow, Carry, Zero>>[(Opcode \div 64) + 1]
    IN  Contains(Cur.cpu.status, flag) = ((Opcode \div 32) % 2 = 1)

\* the address following the branch, and that address plus the sign-extended offset
BranchFallThrough == U16(OpcodeAddr + 2)
BranchTarget ==
    U16(BranchFallThrough + Operand1 + (IF Operand1 >= 128 THEN 65280 ELSE 0))

\* the cycles a branch takes: 2, 3 when taken within the page, 4 when taken across
BranchCycles ==
    IF ~BranchTaken THEN 2
    ELSE IF BranchTarget \div 256 = BranchFallThrough \div 256 THEN 3
    ELSE 4

\* the official cycle count of the instruction that ran last
ExpectedCycles ==
    IF Opcode \in Branches THEN BranchCycles
    ELSE OfficialCycles[Opcode + 1] + (IF IndexCarries THEN 1 ELSE 0)

\* C1: every instruction that completes has taken, from its decode cycle to
\* the cycle that marks it done, the official number of cycles for its
\* opcode, plus one for an indexed read that crosses a page and plus one or
\* two for a taken branch.
C1_OfficialTiming == InstrDone => Cycles = ExpectedCycles

\* an indexed read that crossed a page, or a branch taken across a page,
\* has completed
C1_Witness ==
    /\ InstrDone
    /\ \/ (Opcode = 189 /\ IndexCarries /\ Cycles = 5)
       \/ (Opcode \in Branches /\ BranchTaken /\ Cycles = 4)

\* C2: in every executed CPU cycle exactly one bus access occurs, the decode
\* cycle and the last cycle of the instruction included.
C2_OneAccessPerCycle == \A i \in 1..Len(trace) : Len(trace[i].log) = 1

(***************************************************************************)
(* The page-cross cycle of the indexed modes.                              *)
(***************************************************************************)
\* STA and the read-modify-write instructions (the undocumented ones
\* included) in Absolute,X, Absolute,Y and (Indirect),Y mode
AbsXStores == {157}
AbsYStores == {153}
IndYStores == {145}
AbsXRmws == {30, 31, 62, 63, 94, 95, 126, 127, 222, 223, 254, 255}
AbsYRmws == {27, 59, 91, 123, 219, 251}
IndYRmws == {19, 51, 83, 115, 211, 243}

IndexedReads == AbsXReads \cup AbsYReads \cup IndYReads
IndexedStores == AbsXStores \cup AbsYStores \cup IndYStores
IndexedRmws == AbsXRmws \cup AbsYRmws \cup IndYRmws

\* adding the index to the low address byte carries into the high byte,
\* for any instruction in one of the three modes
PageCrossed ==
    CASE Opcode \in AbsXReads \cup AbsXStores \cup AbsXRmws -> Operand1 + Cur.cpu.x >= 256
      [] Opcode \in AbsYReads \cup AbsYStores \cup AbsYRmws -> Operand1 + Cur.cpu.y >= 256
      [] Opcode \in IndYReads \cup IndYStores \cup IndYRmws ->
            Peek(Cur, Operand1) + Cur.cpu.y >= 256
      [] OTHER -> FALSE

\* the cycles of the instruction without the extra cycle: four (five in
\* (Indirect),Y mode) to the access of the operand, and two more for the
\* two writes of a read-modify-write instruction
CyclesWithoutExtra ==
    (IF Opcode \in IndYReads \cup IndYStores \cup IndYRmws THEN 5 ELSE 4)
    + (IF Opcode \in IndexedRmws THEN 2 ELSE 0)

SpentExtraCycle == Cycles = CyclesWithoutExtra + 1
SkippedExtraCycle == Cycles = CyclesWithoutExtra

\* C4: in Absolute,X, Absolute,Y and (Indirect),Y mode a read instruction
\* spends the extra cycle if and only if the index carries into the high
\* address byte; STA and every read-modify-write instruction spend it always.
C4_ExtraCycle ==
    InstrDone =>
        /\ Opcode \in IndexedReads =>
              IF PageCrossed THEN SpentExtraCycle ELSE SkippedExtraCycle
        /\ Opcode \in IndexedStores \cup IndexedRmws => SpentExtraCycle

\* STA abs,X whose index does not carry has completed in five cycles
C4_Witness ==
    /\ InstrDone
    /\ Opcode \in AbsXStores
    /\ ~PageCrossed
    /\ Cycles = 5

(***************************************************************************)
(* Branches.                                                               *)
(***************************************************************************)
\* the address of the opcode the CPU executes next: the last cycle of an
\* instruction has fetched it into `prefetch`, which leaves pc one past it
NextOpcodeAddr == U16(nes.cpu.pc + 65535)

\* a panic ended the run in the middle of a branch
BranchFaulted ==
    /\ fault # "none"
    /\ decodes # <<>>
    /\ Opcode \in Branches
    /\ nes.cpu.procedure.func # "none"

\* C5: a branch takes 2 cycles when not taken, 3 when taken within the page
\* of the following instruction and 4 when taken to another page, and in
\* every case ends with PC at the fall-through address or at the address
\* following the branch plus the sign-extended offset.
C5_BranchOutcome ==
    /\ ~BranchFaulted
    /\ (InstrDone /\ Opcode \in Branches) =>
          /\ Cycles = BranchCycles
          /\ NextOpcodeAddr = (IF BranchTaken THEN BranchTarget ELSE BranchFallThrough)

\* the timing and the final PC of the branches that complete
CompletedBranchOutcome ==
    (InstrDone /\ Opcode \in Branches) =>
        /\ Cycles = BranchCycles
        /\ NextOpcodeAddr = (IF BranchTaken THEN BranchTarget ELSE BranchFallThrough)

(***************************************************************************)
(* Zero-page,X read-modify-write.                                          *)
(***************************************************************************)
\* ASL, ROL, LSR and ROR zp,X
ZeroXShifts == {22, 54, 86, 118}
RmwOperands == {255, 16}
RmwIndexes == {2, 240}
RmwValues == {129, 0, 64, 1}
RmwStatuses == {36, 37}

\* the instruction at $8000, the value at its effective address, and 7 in
\* every other cell of work RAM
InitRmw ==
    \E opcode \in ZeroXShifts, op1 \in RmwOperands, x \in RmwIndexes,
       v \in RmwValues, status \in RmwStatuses, checks \in BOOLEAN :
        /\ nes = Running(Place(NopRom, 0, <<opcode, op1>>),
                         Place(MemFill(7), (op1 + x) % 256, <<v>>),
                         32768, 0, x, 0, 253, status)
        /\ overflow_checks = checks
        /\ Stepped
        /\ Fresh

SpecRmw == InitRmw /\ [][CpuCycle]_vars

\* the effective address (op1 + X) & $FF and the value it held
ZeroXAddr == (Operand1 + Cur.cpu.x) % 256
OldValue == Peek(Cur, ZeroXAddr)
CarryIn == Cur.cpu.status % 2

\* the value and the carry the shift produces, by the data sheet
ShiftedValue ==
    CASE Opcode = 22 -> (2 * OldValue) % 256
      [] Opcode = 54 -> ((2 * OldValue) % 256) + CarryIn
      [] Opcode = 86 -> OldValue \div 2
      [] Opcode = 118 -> (OldValue \div 2) + 128 * CarryIn
ShiftedCarry ==
    IF Opcode \in {22, 54} THEN OldValue >= 128 ELSE OldValue % 2 = 1

\* the final memory value and the C, N and Z flags are those of the shift
ShiftResult ==
    /\ Peek(nes, ZeroXAddr) = ShiftedValue
    /\ Contains(nes.cpu.status, Carry) = ShiftedCarry
    /\ Contains(nes.cpu.status, Negative) = (ShiftedValue >= 128)
    /\ Contains(nes.cpu.status, Zero) = (ShiftedValue = 0)

\* C3: a zero-page,X read-modify-write instruction takes 6 cycles, and
\* last_bus after cycles 1..6 shows the opcode read, the operand read, the
\* dummy read at {$00, op1}, the read of the effective address, the write of
\* the unmodified value and the write of the modified value; the final
\* memory value and the C, N and Z flags are those of the shift.
C3_ZeroXRmwBus ==
    (InstrDone /\ Opcode \in ZeroXShifts) =>
        /\ Cycles = 6
        /\ trace[1].last_bus = <<OpcodeAddr, Opcode, TRUE>>
        /\ trace[2].last_bus = <<OpcodeAddr + 1, Operand1, TRUE>>
        /\ trace[3].last_bus[1] = Operand1 /\ trace[3].last_bus[3]
        /\ trace[4].last_bus = <<ZeroXAddr, OldValue, TRUE>>
        /\ trace[5].last_bus = <<ZeroXAddr, OldValue, FALSE>>
        /\ trace[6].last_bus = <<ZeroXAddr, ShiftedValue, FALSE>>
        /\ ShiftResult

\* what the code does keep of it: six cycles, the first five as described,
\* the write of the modified value made in the sixth, and the result
ZeroXRmwButLastBus ==
    (InstrDone /\ Opcode \in ZeroXShifts) =>
        /\ Cycles = 6
        /\ trace[1].last_bus = <<OpcodeAddr, Opcode, TRUE>>
        /\ trace[2].last_bus = <<OpcodeAddr + 1, Operand1, TRUE>>
        /\ trace[3].last_bus[1] = Operand1 /\ trace[3].last_bus[3]
        /\ trace[4].last_bus = <<ZeroXAddr, OldValue, TRUE>>
        /\ trace[5].last_bus = <<ZeroXAddr, OldValue, FALSE>>
        /\ trace[6].log[1] = <<ZeroXAddr, ShiftedValue, FALSE>>
        /\ ShiftResult

(***************************************************************************)
(* The reset state.                                                        *)
(***************************************************************************)
\* the instructions that push or pull the status: BRK PHP PLP RTI
StatusOpcodes == {0, 8, 40, 64}

\* a mapper 0 ROM: three instructions at $8000 and the reset vector $8000
ResetRom(b1, b2, b3) ==
    Place(Place(NopRom, 0, <<b1, b2, b3>>), 32764, <<0, 128>>)

\* Nes::default, then Nes::load_rom
Init ==
    \E b1 \in StatusOpcodes, b2 \in StatusOpcodes, b3 \in StatusOpcodes,
       checks \in BOOLEAN :
        /\ nes = NesOf(load_rom(Machine(NesDefault, checks),
                                ResetRom(b1, b2, b3), MemFill(0)))
        /\ overflow_checks = checks
        /\ (Stepped \/ Ticked)
        /\ Fresh

Spec == Init /\ [][Next]_vars

\* the status bytes the running instruction has pushed so far: PHP writes
\* one in its third cycle, BRK in its fifth
PushedStatus ==
    IF decodes = <<>> THEN {}
    ELSE IF Opcode = 8 /\ Len(trace) >= 3 THEN {trace[3].log[1]}
    ELSE IF Opcode = 0 /\ Len(trace) >= 5 THEN {trace[5].log[1]}
    ELSE {}

\* C6: from the reset state on, bit 5 of the status register is 1 after any
\* sequence of instructions, and every copy of the status pushed to the
\* stack has bit 5 equal to 1.
C6_Bit5 ==
    /\ Bit(nes.cpu.status, 5) = 1
    /\ \A w \in PushedStatus : ~w[3] /\ w[1] \div 256 = 1 /\ Bit(w[2], 5) = 1

\* PLP pulled a byte with bit 5 clear, and a PHP after it pushed the status
C6_Witness ==
    /\ Len(decodes) >= 2
    /\ decodes[Len(decodes) - 1].at.cpu.prefetch = 40
    /\ Bit(Peek(Cur, 256 + Cur.cpu.sp), 5) = 0
    /\ Opcode = 8
    /\ PushedStatus # {}

(***************************************************************************)
(* ADC.                                                                    *)
(***************************************************************************)
\* ADC #M at $8000 with every accumulator, operand and carry; the opcode
\* after it is one the decoder rejects, so the run ends there
InitAdc ==
    \E a \in 0..255, data \in 0..255, carry \in {0, 1}, checks \in BOOLEAN :
        /\ nes = Running(Place(NopRom, 0, <<105, data, 2>>), MemFill(0),
                         32768, a, 0, 0, 253, 36 + carry)
        /\ overflow_checks = checks
        /\ Stepped
        /\ Fresh

SpecAdc == InitAdc /\ [][CpuCycle]_vars

\* A + M + C_in of the instruction that ran last
AdcSum == Cur.cpu.acc + Operand1 + (Cur.cpu.status % 2)

\* C7: for all A and M in 0..255 and carry-in in {0,1}, ADC leaves
\* A' = (A+M+C_in) mod 256, C = (A+M+C_in >= 256),
\* V = (((A xor A') and (M xor A') and $80) # 0), Z = (A' = 0) and
\* N = bit 7 of A'.
C7_Adc ==
    (InstrDone /\ Opcode = 105) =>
        /\ nes.cpu.acc = AdcSum % 256
        /\ Contains(nes.cpu.status, Carry) = (AdcSum >= 256)
        /\ Contains(nes.cpu.status, Overflow) =
              (BitAnd(BitAnd(BitXor(Cur.cpu.acc, nes.cpu.acc),
                             BitXor(Operand1, nes.cpu.acc)), 128) # 0)
        /\ Contains(nes.cpu.status, Zero) = (nes.cpu.acc = 0)
        /\ Contains(nes.cpu.status, Negative) = (Bit(nes.cpu.acc, 7) = 1)

\* ADC #$50 with A = $50 and C = 0 has left A = $A0, N = 1, V = 1, C = 0, Z = 0
C7_Witness ==
    /\ InstrDone /\ Opcode = 105
    /\ Cur.cpu.acc = 80 /\ Operand1 = 80 /\ Cur.cpu.status % 2 = 0
    /\ nes.cpu.acc = 160
    /\ Contains(nes.cpu.status, Negative) /\ Contains(nes.cpu.status, Overflow)
    /\ ~Contains(nes.cpu.status, Carry) /\ ~Contains(nes.cpu.status, Zero)

(***************************************************************************)
(* PHP then PLP.                                                           *)
(***************************************************************************)
\* the status values a program can hold: bit 5 is set in every one of them
StatusValues == {p \in 0..255 : Bit(p, 5) = 1}

\* PHP, PLP at $8000 with every status and every stack pointer, the stack
\* page holding $FF
InitPhpPlp ==
    \E status \in StatusValues, sp \in 0..255, checks \in BOOLEAN :
        /\ nes = Running(Place(NopRom, 0, <<8, 40, 2>>), MemFill(255),
                         32768, 0, 0, 0, sp, status)
        /\ overflow_checks = checks
        /\ Stepped
        /\ Fresh

SpecPhpPlp == InitPhpPlp /\ [][CpuCycle]_vars

\* PLP has completed right after PHP
PhpPlpDone ==
    /\ InstrDone
    /\ Len(decodes) = 2
    /\ decodes[1].at.cpu.prefetch = 8
    /\ Opcode = 40

\* C8: for every status P and every stack pointer S, PHP then PLP leaves the
\* status equal to (P and $CF) or $20 and the stack pointer equal to S, and
\* the byte PHP wrote to the stack is P or $30.
C8_PhpPlp ==
    PhpPlpDone =>
        /\ nes.cpu.status = BitOr(BitAnd(decodes[1].at.cpu.status, 207), 32)
        /\ nes.cpu.sp = decodes[1].at.cpu.sp
        /\ Peek(nes, 256 + decodes[1].at.cpu.sp) = BitOr(decodes[1].at.cpu.status, 48)

\* PHP then PLP has completed with the stack pointer at $00, the push having
\* wrapped it to $FF, and with the Break flag clear in the status
C8_Witness ==
    /\ PhpPlpDone
    /\ decodes[1].at.cpu.sp = 0
    /\ Cur.cpu.sp = 255
    /\ Bit(decodes[1].at.cpu.status, 4) = 0
    /\ Peek(nes, 256) = BitOr(decodes[1].at.cpu.status, 48)

(***************************************************************************)
(* JMP (ptr).                                                              *)
(***************************************************************************)
\* pointers at the end and inside of a page, at the end of work RAM and at
\* the end of the address space
JmpPointers == {767, 640, 2047, 65535}
JmpLows == {52, 128}
JmpHighs == {18, 3}

\* the Nes n with byte v at address addr of work RAM or PRG ROM
Poke(n, addr, v) ==
    IF addr <= 8191 THEN [n EXCEPT !.cpu.wram = MemSet(@, addr % 2048, v)]
    ELSE IF addr >= 32768 THEN [n EXCEPT !.cart.prg_rom = MemSet(@, addr % 32768, v)]
    ELSE n

\* the address with the high byte of ptr and the low byte (ptr + 1) mod 256
SamePageNext(ptr) == (ptr - (ptr % 256)) + ((ptr + 1) % 256)

\* JMP (ptr) at $8000: `low` at ptr, `high` at the address after it within
\* the page, $56 at ptr + 1 where that is another address, 7 elsewhere in RAM
InitJmp ==
    \E ptr \in JmpPointers, low \in JmpLows, high \in JmpHighs, checks \in BOOLEAN :
        /\ nes = Poke(Poke(Poke(Running(Place(NopRom, 0, <<108, ptr % 256, ptr \div 256>>),
                                        MemFill(7), 32768, 0, 0, 0, 253, 36),
                                U16(ptr + 1), 86),
                           SamePageNext(ptr), high),
                      ptr, low)
        /\ overflow_checks = checks
        /\ Stepped
        /\ Fresh

SpecJmp == InitJmp /\ [][CpuCycle]_vars

\* the pointer of the JMP (ptr) that ran last
JmpPointer == addr_concat(Operand2, Operand1)

\* a panic ended the run in the middle of JMP (ptr)
JmpFaulted ==
    /\ fault # "none"
    /\ decodes # <<>>
    /\ Opcode = 108
    /\ nes.cpu.procedure.func # "none"

\* the new PC of a JMP (ptr) that completes: low byte from ptr, high byte
\* from the same page
CompletedIndirectJmp ==
    (InstrDone /\ Opcode = 108) =>
        NextOpcodeAddr = addr_concat(Peek(Cur, SamePageNext(JmpPointer)),
                                     Peek(Cur, JmpPointer))

\* C9: for JMP (ptr) with any 16-bit pointer, the low byte of the new PC is
\* read from ptr and the high byte from the address with the high byte of
\* ptr and the low byte (ptr + 1) mod 256.
C9_IndirectJmp == ~JmpFaulted /\ CompletedIndirectJmp

(***************************************************************************)
(* NMI.                                                                    *)
(***************************************************************************)
\* the PPU control values: NMI at vblank enabled, and disabled
NmiCtrls == {128, 0}

\* a program of NOPs in the main loop, 82522 dots after reset: the PPU is
\* at dot 0 of scanline 241, one dot before it sets the vblank flag, its
\* control register unlocked and written by the program; the CPU is between
\* two instructions, 330088 master clocks into the run
InitNmi ==
    \E ctrl \in NmiCtrls, checks \in BOOLEAN :
        /\ nes = [Running(NopRom, MemFill(0), 32768, 0, 0, 0, 253, 36)
                    EXCEPT !.ppu.pos = [cycle |-> 0, scanline |-> 241, is_odd |-> FALSE],
                           !.ppu.cycles_since_pwrrst = 82522,
                           !.ppu.ctrl_unlocked = TRUE,
                           !.ppu.ctrl = ctrl,
                           !.ppu.ports_latch = ctrl,
                           !.ppu.clock_divider = 0,
                           !.cpu.clock_divider = 4,
                           !.cpu.cyc = 27507]
        /\ overflow_checks = checks
        /\ Ticked
        /\ Fresh

SpecNmi == InitNmi /\ [][Tick]_vars

\* C10: whenever the NMI line is low when an instruction completes, the CPU
\* does not execute the next opcode but services the NMI; so no opcode is
\* decoded after an instruction that left the line low.
C10_NmiServiced == \A i \in 1..Len(decodes) : decodes[i].line

(***************************************************************************)
(* The PPU dot counter.                                                    *)
(***************************************************************************)
\* dots run from reset in one run: the pre-render line the PPU starts on,
\* an even frame, an odd frame, and a few dots of the frame after
MaxDots == 179030

\* what the program may have written to $2001 (mask) and to $2005 (the
\* first scroll byte): rendering off, background on, background on and
\* scrolled to coarse X 31, sprites on and scrolled the same way
FrameSetups == {<<0, 0>>, <<8, 0>>, <<8, 248>>, <<16, 248>>}

\* the first dot of a frame: dot 0 of scanline 0, or dot 1 where
\* PixelPos::inc has stepped over dot 0
FrameStart(pos) == pos.scanline = 0 /\ pos.cycle = (IF pos.is_odd THEN 1 ELSE 0)

\* what a run of Ppu::cycle calls notes of a call that left machine m: the
\* number of dots run so far at each start of a frame
FrameNote(m) ==
    IF FrameStart(m.ppu.pos)
    THEN Append(trace, [dots |-> m.ppu.cycles_since_pwrrst,
                        is_odd |-> m.ppu.pos.is_odd,
                        mask |-> m.ppu.mask])
    ELSE trace

\* one call of Ppu::cycle
PpuCycle ==
    /\ driver = "Ppu::cycle"
    /\ fault = "none"
    /\ nes.ppu.cycles_since_pwrrst < MaxDots
    /\ LET m == Ppu_cycle(Machine(nes, overflow_checks)) IN
        /\ UNCHANGED <<overflow_checks, driver, decodes, retired>>
        /\ IF m.fault # "none"
           THEN fault' = m.fault /\ UNCHANGED <<nes, trace>>
           ELSE nes' = NesOf(m) /\ UNCHANGED fault /\ trace' = FrameNote(m)

\* Nes::default, the mask written through $2001 and the scroll through
\* $2005, then only the PPU is run
InitFrame ==
    \E setup \in FrameSetups, checks \in BOOLEAN :
        /\ nes = NesOf(BusWrite(BusWrite(Machine(NesDefault, checks), 8193, setup[1]),
                                8197, setup[2]))
        /\ overflow_checks = checks
        /\ driver = "Ppu::cycle"
        /\ Fresh

SpecFrame == InitFrame /\ [][PpuCycle]_vars

\* C11: the dot stays in 0..=340 and the scanline in 0..=261, and from the
\* start of one frame to the start of the next the PPU runs exactly 89342
\* cycles on an even frame, and exactly 89341 on an odd frame with
\* background rendering enabled.
C11_FrameLength ==
    /\ nes.ppu.pos.cycle \in 0..340
    /\ nes.ppu.pos.scanline \in 0..261
    /\ \A i \in 1..(Len(trace) - 1) :
        LET dots == trace[i + 1].dots - trace[i].dots IN
        /\ ~trace[i].is_odd => dots = 89342
        /\ (trace[i].is_odd /\ show_background(trace[i].mask)) => dots = 89341

\* an even frame and then an odd frame with the background shown have run
C11_Witness ==
    /\ Len(trace) = 3
    /\ ~trace[1].is_odd /\ trace[2].is_odd /\ ~trace[3].is_odd
    /\ show_background(nes.ppu.mask)
    /\ fault = "none"

(***************************************************************************)
(* The copy of the horizontal scroll bits at dot 257.                      *)
(***************************************************************************)
\* the call of Ppu::cycle that runs dot 257 of a visible or the pre-render
\* scanline with rendering enabled, and returns
Dot257 ==
    /\ driver = "Ppu::cycle"
    /\ fault' = "none"
    /\ Rendering(nes)
    /\ nes.ppu.pos.cycle = 257
    /\ (nes.ppu.pos.scanline <= 239 \/ nes.ppu.pos.scanline = 261)

\* C12: with rendering enabled, immediately after the PPU cycle at dot 257 of
\* a visible or the pre-render scanline the horizontal bits of v equal those
\* of t, (v and $041F) = (t and $041F), and the other bits of v are as
\* before.
C12_HorizontalCopy ==
    [][Dot257 =>
        /\ BitAnd(nes'.ppu.vram_addr, 1055) = BitAnd(nes.ppu.tmp_vram_addr, 1055)
        /\ BitAnd(nes'.ppu.vram_addr, 64480) = BitAnd(nes.ppu.vram_addr, 64480)]_vars

(***************************************************************************)
(* Calls made from outside the pump: Ppu::read and Ppu::write on the PPU   *)
(* memory map, Nes::read and Nes::write on the CPU bus.  A run of calls    *)
(* keeps in trace, for each call, whether it read, its address, the byte   *)
(* written or returned, and the Nes before it.                             *)
(***************************************************************************)
\* calls made in one run
MaxCalls == 3

\* the state after a call that left machine m; a call that panicked is noted
\* with the Nes as it was before the call
Called(m, read, addr, data) ==
    /\ UNCHANGED <<overflow_checks, driver, decodes, retired>>
    /\ trace' = Append(trace, [read |-> read, addr |-> addr, data |-> data, before |-> nes])
    /\ IF m.fault # "none"
       THEN fault' = m.fault /\ UNCHANGED nes
       ELSE nes' = NesOf(m) /\ UNCHANGED fault

\* the call made last
Last == trace[Len(trace)]

(***************************************************************************)
(* Palette memory.                                                         *)
(***************************************************************************)
\* the eight addresses the specification pairs, and addresses outside the pairs
PaletteAddrs == {16128, 16132, 16136, 16140, 16144, 16148, 16152, 16156,
                 16129, 16145, 16159}
PaletteBytes == {1, 2}

\* one call of Ppu::write on a palette address
PaletteWrite ==
    /\ driver = "Ppu::read, Ppu::write"
    /\ fault = "none"
    /\ Len(trace) < MaxCalls
    /\ \E addr \in PaletteAddrs, data \in PaletteBytes :
        Called(PpuWrite(Machine(nes, overflow_checks), addr, data), FALSE, addr, data)

\* one call of Ppu::read on a palette address
PaletteRead ==
    /\ driver = "Ppu::read, Ppu::write"
    /\ fault = "none"
    /\ Len(trace) < MaxCalls
    /\ \E addr \in PaletteAddrs :
        LET m == PpuRead(Machine(nes, overflow_checks), addr) IN
        Called(m, TRUE, addr, m.ret)

\* Nes::default, in and out of vblank
InitPalette ==
    \E vblank \in BOOLEAN, checks \in BOOLEAN :
        /\ nes = [NesDefault EXCEPT !.ppu.vblank = vblank]
        /\ overflow_checks = checks
        /\ driver = "Ppu::read, Ppu::write"
        /\ Fresh

SpecPalette == InitPalette /\ [][PaletteWrite \/ PaletteRead]_vars

\* the entry the specification gives an address of $3F00..$3F1F: $3F10, $3F14, $3F18
\* and $3F1C share the entry of $3F00, $3F04, $3F08 and $3F0C
Entry(addr) == IF addr \in {16144, 16148, 16152, 16156} THEN addr - 16 ELSE addr

\* the writes made before call j to the entry of address addr
WritesBefore(j, addr) ==
    {i \in 1..(j - 1) : ~trace[i].read /\ Entry(trace[i].addr) = Entry(addr)}

\* the byte call j, a read, is to return by the specification: the byte of the
\* last write to the same entry, or the zero the palette is built with
Expected(j) ==
    LET w == WritesBefore(j, trace[j].addr) IN
    IF w = {} THEN 0
    ELSE trace[CHOOSE i \in w : \A k \in w : k <= i].data

\* C13: a write to $3F10, $3F14, $3F18 or $3F1C is returned by a later read
\* of $3F00, $3F04, $3F08 or $3F0C and the other way round, and every other
\* palette address is stored on its own: a read that returns gives the byte
\* last written to the same entry.
C13_PaletteMirror ==
    \A j \in 1..Len(trace) :
        (trace[j].read /\ (j < Len(trace) \/ fault = "none")) => trace[j].data = Expected(j)

\* $3F10 was written, and the read of $3F00 after it returned that byte
C13_Witness ==
    /\ Len(trace) = 2
    /\ fault = "none"
    /\ ~trace[1].read /\ trace[1].addr = 16144 /\ trace[1].data = 2
    /\ trace[2].read /\ trace[2].addr = 16128 /\ trace[2].data = 2

(***************************************************************************)
(* The CPU bus seen from outside: calls of Nes::read and Nes::write on the *)
(* PPU port window, two of its mirrors, and the APU/input window.          *)
(***************************************************************************)
\* $2000..$2007, $2008, $3FFF, $4000, $4014, $4017
BusAddrs == 8192..8199 \cup {8200, 16383} \cup {16384, 16404, 16407}
BusBytes == {5, 32}

\* one call of Nes::read
Read ==
    /\ driver = "Nes::read, Nes::write"
    /\ fault = "none"
    /\ Len(trace) < MaxCalls
    /\ \E addr \in BusAddrs :
        LET m == BusRead(Machine(nes, overflow_checks), addr) IN
        Called(m, TRUE, addr, m.ret)

\* one call of Nes::write
Write ==
    /\ driver = "Nes::read, Nes::write"
    /\ fault = "none"
    /\ Len(trace) < MaxCalls
    /\ \E addr \in BusAddrs, data \in BusBytes :
        Called(BusWrite(Machine(nes, overflow_checks), addr, data), FALSE, addr, data)

\* the PPU 30000 calls of Ppu::cycle after Nes::default, rendering off: at
\* dot 333 of scanline 86, its control register unlocked, the pattern shift
\* registers filled with ones
WarmPpu ==
    [PpuDefault EXCEPT !.cycles_since_pwrrst = 30000,
                       !.ctrl_unlocked = TRUE,
                       !.pos = [cycle |-> 333, scanline |-> 86, is_odd |-> FALSE],
                       !.shift_lower = 65535,
                       !.shift_upper = 65535]

\* Nes::default, before and after the PPU has unlocked its control register
InitBus ==
    \E ppu \in {PpuDefault, WarmPpu} :
        /\ nes = [NesDefault EXCEPT !.ppu = ppu]
        /\ overflow_checks = ppu.ctrl_unlocked
        /\ driver = "Nes::read, Nes::write"
        /\ Fresh

SpecBus == InitBus /\ [][Read \/ Write]_vars

\* the ports that cannot be read
WriteOnlyPorts == {8192, 8193, 8195, 8197, 8198}

AddressedRead(j) ==
    /\ j >= 3 /\ j <= Len(trace)
    /\ (j < Len(trace) \/ fault = "none")
    /\ ~trace[j - 2].read /\ trace[j - 2].addr = 8198
    /\ ~trace[j - 2].before.ppu.write_toggle
    /\ ~trace[j - 1].read /\ trace[j - 1].addr = 8198
    /\ trace[j].read /\ trace[j].addr = 8199

\* the Nes after call j
After(j) == IF j = Len(trace) THEN nes ELSE trace[j + 1].before

\* C15: after two consecutive writes hi, lo to $2006, starting with the write
\* toggle clear, a CPU read of $2007 returns the byte stored in PPU memory at
\* ((hi and $3F) << 8) or lo, and afterwards v has advanced by 1 (stride bit
\* of ctrl clear) or by 32 (stride bit set).
C15_AddressedRead ==
    \A j \in 1..Len(trace) :
        AddressedRead(j) =>
            LET at == 256 * (trace[j - 2].data % 64) + trace[j - 1].data
                stored == PpuRead(Machine(trace[j].before, FALSE), at).ret
                stride == IF vram_addr_inc(trace[j].before.ppu.ctrl) THEN 32 ELSE 1
            IN  /\ trace[j].data = stored
                /\ After(j).ppu.vram_addr = at + stride

(***************************************************************************)
(* The mirrors of the PPU ports.                                           *)
(***************************************************************************)
\* the call made last, made at address addr on the Nes it was made on
LastAt(addr) ==
    IF Last.read THEN BusRead(Machine(Last.before, overflow_checks), addr)
    ELSE BusWrite(Machine(Last.before, overflow_checks), addr, Last.data)

\* C18: for every CPU address a in $2000..$3FFF a bus read or write at a
\* behaves exactly like the same access at $2000 + (a and 7): it faults only
\* if that one does, returns the same byte and leaves the same CPU, PPU and
\* cartridge state.
C18_PortMirror ==
    (trace # <<>> /\ Last.addr \in 8192..16383) =>
        LET port == LastAt(8192 + (Last.addr % 8)) IN
        /\ (fault = "none") = (port.fault = "none")
        /\ fault = "none" =>
            /\ Last.read => Last.data = port.ret
            /\ nes.cpu = port.cpu /\ nes.ppu = port.ppu /\ nes.cart = port.cart

(***************************************************************************)
(* The APU/input window.                                                   *)
(***************************************************************************)
\* C19: for every address in $4000..$4017, $4014 included, a CPU bus read
\* returns 0 and a CPU bus write is ignored: neither faults, and neither
\* changes CPU, PPU, work-RAM or cartridge state other than the last bus
\* activity and predecode.
C19_ApuWindow ==
    (trace # <<>> /\ Last.addr \in 16384..16407) =>
        /\ fault = "none"
        /\ Last.read => Last.data = 0
        /\ nes.ppu = Last.before.ppu
        /\ nes.cart = Last.before.cart
        /\ [nes.cpu EXCEPT !.predecode = Last.before.cpu.predecode] = Last.before.cpu

(***************************************************************************)
(* The clock dividers.                                                     *)
(***************************************************************************)
\* master ticks accounted for by the CPU: twelve for each cycle run, and the
\* phase of its divider; and by the PPU: four for each cycle run, and the
\* phase of its divider
CpuTicks(n) == 12 * n.cpu.cyc + n.cpu.clock_divider
PpuTicks(n) == 4 * n.ppu.cycles_since_pwrrst + n.ppu.clock_divider

\* C16: from construction, with both dividers at phase 0, each call of
\* Nes::tick advances each divider by one master tick, the CPU divider
\* firing every twelfth tick and the PPU divider every fourth, each firing
\* running exactly one cycle of its component; so after n calls the CPU has
\* run floor(n/12) cycles and the PPU floor(n/4), and the counters stay in
\* 0..=11 and 0..=3.
C16_Dividers ==
    /\ Ticked => (CpuTicks(nes) = 0 /\ PpuTicks(nes) = 0)
    /\ [][(Ticked /\ fault' = "none") =>
            /\ CpuTicks(nes') = CpuTicks(nes) + 1
            /\ PpuTicks(nes') = PpuTicks(nes) + 1
            /\ nes'.cpu.clock_divider \in 0..11
            /\ nes'.ppu.clock_divider \in 0..3]_vars

\* 24 calls of Nes::tick have run: two CPU cycles and six PPU cycles
C16_Witness ==
    /\ Ticked
    /\ fault = "none"
    /\ nes.cpu.cyc = 2 /\ nes.cpu.clock_divider = 0
    /\ nes.ppu.cycles_since_pwrrst = 6 /\ nes.ppu.clock_divider = 0

(***************************************************************************)
(* The order of the CPU and the PPU in one master tick.                    *)
(***************************************************************************)
\* what the program stores to $2001: background on, sprites on, rendering off
OrderMasks == {8, 16, 0}

\* a mapper 0 ROM with reset vector $8000: LDA #mask, STA $2001, then NOPs
MaskRom(mask) ==
    Place(Place(NopRom, 0, <<169, mask, 141, 1, 32>>), 32764, <<0, 128>>)

\* Nes::default, then Nes::load_rom, then the main loop
InitOrder ==
    \E mask \in OrderMasks, checks \in BOOLEAN :
        /\ nes = NesOf(load_rom(Machine(NesDefault, checks), MaskRom(mask), MemFill(0)))
        /\ overflow_checks = checks
        /\ Ticked
        /\ Fresh

SpecOrder == InitOrder /\ [][Tick]_vars

\* the bus accesses of the CPU cycle run in this step
CycleLog == trace'[Len(trace')].log

\* a master tick in which both dividers fire, whose CPU cycle turns
\* rendering on by a write to $2001, and whose PPU cycle runs a dot at which
\* a rendering PPU loads the nametable address: dot 1, 9, .., 249 of a
\* visible or the pre-render scanline
MaskWriteTick ==
    /\ Ticked
    /\ fault' = "none"
    /\ nes.cpu.clock_divider = 11 /\ nes.ppu.clock_divider = 3
    /\ ~Rendering(nes)
    /\ \E k \in 1..Len(CycleLog) :
        /\ CycleLog[k][1] = 8193 /\ ~CycleLog[k][3]
        /\ show_background(CycleLog[k][2]) \/ show_sprites(CycleLog[k][2])
    /\ nes.ppu.pos.scanline <= 239 \/ nes.ppu.pos.scanline = 261
    /\ nes.ppu.pos.cycle >= 1 /\ nes.ppu.pos.cycle <= 256 /\ nes.ppu.pos.cycle % 8 = 1

\* C17: in a master tick in which both dividers fire, the CPU cycle runs
\* before the PPU cycle, so the PPU cycle of the tick already sees a write the
\* CPU makes to a PPU port in that tick: when the write turns rendering on,
\* the PPU cycle of the same tick runs its dot as a rendering PPU does.
C17_CpuFirst ==
    [][MaskWriteTick =>
        nes'.ppu.internal_bus_addr = BitOr(8192, nes.ppu.vram_addr % 4096)]_vars

\* the STA $2001 wrote the mask in the tick that ran dot 17 of the pre-render
\* scanline, and that dot loaded the nametable address
C17_Witness ==
    /\ Ticked
    /\ fault = "none"
    /\ trace # <<>>
    /\ nes.last_bus[1] = 32773
    /\ nes.cpu.clock_divider = 0 /\ nes.ppu.clock_divider = 0
    /\ Rendering(nes)
    /\ nes.ppu.pos = [cycle |-> 18, scanline |-> 261, is_odd |-> TRUE]
    /\ nes.ppu.internal_bus_addr = 8192

(***************************************************************************)
(* Loading a ROM file.  A RomFile is held as [header, prg, chr]: the 16    *)
(* header bytes (header[i + 1] is the Rust header[i]) and the PRG and CHR  *)
(* images.                                                                 *)
(***************************************************************************)
\* RomFile::is_ines2
is_ines2(rom) == (rom.header[8] \div 4) % 4 = 2

\* RomFile::mapper_number
mapper_number(rom) ==
    IF is_ines2(rom)
    THEN BitOr(BitOr(256 * BitAnd(rom.header[9], 15), BitAnd(rom.header[8], 240)),
               rom.header[7] \div 16)
    ELSE BitOr(BitAnd(rom.header[8], 240), rom.header[7] \div 16)

\* RomFile::into_mapper, assigned to self.cart.mapper
into_mapper(m, rom) ==
    IF mapper_number(rom) = 0
    THEN [m EXCEPT !.cart = Mapper000(rom.prg, rom.chr)]
    ELSE Panic(m, "Failed to detect ROM mapper type! Possibly unsupported.")

\* Nes::load_rom on any ROM file: the panic of into_mapper leaves the call
\* before the mapper is assigned and before Cpu::init_pc
load_rom_file(m, rom) ==
    IF into_mapper(m, rom).fault # "none" THEN into_mapper(m, rom)
    ELSE init_pc(into_mapper(m, rom))

\* header bytes 6, 7 and 8 of the ROM files loaded: mapper nibbles 0, 1 and
\* 15, the trainer bit, the iNES 2 mark, and the iNES 2 mapper bits 8..11
Header6 == {0, 4, 16, 240}
Header7 == {0, 8, 16, 24}
Header8 == {0, 1}

\* an iNES header: "NES\x1A", one PRG unit, one CHR unit, then bytes 6, 7, 8
HeaderOf(h6, h7, h8) == <<78, 69, 83, 26, 1, 1, h6, h7, h8, 0, 0, 0, 0, 0, 0, 0>>

\* one call of Nes::load_rom; the run keeps in trace the ROM file of each
\* call and the Nes before it
LoadRom ==
    /\ driver = "Nes::load_rom"
    /\ fault = "none"
    /\ Len(trace) < MaxCalls
    /\ \E h6 \in Header6, h7 \in Header7, h8 \in Header8 :
        LET rom == [header |-> HeaderOf(h6, h7, h8),
                    prg |-> ResetRom(234, 234, 234), chr |-> MemFill(0)]
            m == load_rom_file(Machine(nes, overflow_checks), rom)
        IN  /\ UNCHANGED <<overflow_checks, driver, decodes, retired>>
            /\ trace' = Append(trace, [rom |-> rom, before |-> nes])
            /\ IF m.fault # "none"
               THEN fault' = m.fault /\ UNCHANGED nes
               ELSE nes' = NesOf(m) /\ UNCHANGED fault

\* Nes::new
InitLoad ==
    /\ nes = NesDefault
    /\ overflow_checks \in BOOLEAN
    /\ driver = "Nes::load_rom"
    /\ Fresh

SpecLoad == InitLoad /\ [][LoadRom]_vars

\* C20: load_rom with a ROM image whose mapping number is not 0 returns a
\* loader error to the caller, so the call returns and does not panic, and
\* every field of the Nes is as before the call.
C20_UnsupportedMapper ==
    (trace # <<>> /\ mapper_number(Last.rom) # 0) =>
        /\ fault = "none"
        /\ nes = Last.before

(***************************************************************************)
(* Termination of an instruction.  The instruction tests call Cpu::cycle   *)
(* in a loop until the procedure is done (main.rs 556-563): an instruction *)
(* terminates when every cycle it takes raises its cycle index by one, the *)
(* index stays below a fixed limit, and no cycle ends the run before the   *)
(* procedure is marked done.                                               *)
(***************************************************************************)
\* the cycle index of the running procedure, as the test loop reads it after
\* each call of Cpu::cycle
CycleIndex == nes.cpu.procedure.cycle

\* a procedure is held between two calls of Cpu::cycle
Held == nes.cpu.procedure.func # "none"

\* an instruction of the run has been decoded and is not yet marked done
InFlight == retired < Len(decodes)

\* a cycle of an instruction that returns and is not its last raises the
\* cycle index by one
IndexAdvances ==
    [][(Held /\ Held' /\ fault' = "none") => CycleIndex' = CycleIndex + 1]_vars

\* the cycle index of a running instruction is below the runaway limit
BelowRunaway == Held => CycleIndex < 10

\* C21: every instruction that was decoded marks itself done after finitely
\* many CPU cycles: each cycle advances its cycle index, the index stays
\* below 10 while it runs, and no cycle of it ends the run with a panic
C21_Terminates == IndexAdvances /\ [](BelowRunaway /\ (InFlight => fault = "none"))

\* the same for the runs that do not panic, and the one panic that ends an
\* instruction after its decode is the arithmetic overflow of a checked build
TerminatesUnlessOverflow ==
    /\ IndexAdvances
    /\ [](BelowRunaway /\ (InFlight => fault \in {"none", "overflow"}))
    /\ []((InFlight /\ fault = "overflow") => overflow_checks)

(***************************************************************************)
(* The prefetched opcode.  A run from power-on: Nes::default, a mapper 0   *)
(* ROM whose reset vector points at its first instruction, Nes::load_rom,  *)
(* then calls of Cpu::cycle.  Every opcode byte comes first.               *)
(***************************************************************************)
InitBoot ==
    \E opcode \in 0..255, op1 \in TimingOperands, checks \in BOOLEAN :
        /\ nes = NesOf(load_rom(Machine(NesDefault, checks),
                                ResetRom(opcode, op1, 3), MemFill(0)))
        /\ overflow_checks = checks
        /\ Stepped
        /\ Fresh

SpecBoot == InitBoot /\ [][CpuCycle]_vars

\* no procedure is held: the next call of Cpu::cycle decodes an opcode
AtBoundary == fault = "none" /\ ~Held

\* C22: after load_rom, at every instruction boundary the next opcode is
\* already fetched: the prefetched byte is present, it is the byte the last
\* bus access read at PC - 1, and the fault "prefetch should always occur"
\* never happens
C22_Prefetched ==
    /\ fault # "prefetch should always occur"
    /\ AtBoundary =>
        /\ nes.cpu.prefetch # None
        /\ nes.last_bus = <<U16(nes.cpu.pc + 65535), nes.cpu.prefetch, TRUE>>
        /\ nes.cpu.prefetch = Peek(nes, U16(nes.cpu.pc + 65535))
        /\ trace # <<>> =>
            LET log == trace[Len(trace)].log
            IN  /\ log # <<>>
                /\ log[Len(log)] = nes.last_bus

\* two instructions have completed, and the opcode after them is fetched
C22_Witness ==
    /\ AtBoundary
    /\ retired = 2
    /\ Len(trace) >= 2
    /\ nes.cpu.prefetch = 234

(***************************************************************************)
(* BRK.                                                                    *)
(***************************************************************************)
\* the address BRK pushes: the address of the opcode plus 2
BrkReturn == U16(OpcodeAddr + 2)

\* the one bus access of cycle i of the instruction that ran last
Access(i) == trace[i].log[1]

\* a BRK has completed: it pushed the high and then the low byte of the
\* return address, then the status with bit 4 set, and loaded PC from
\* $FFFE (low) and $FFFF (high)
BrkPushesAndVector ==
    (InstrDone /\ Opcode = 0) =>
        /\ Len(trace) = 7
        /\ Access(3) = <<256 + Cur.cpu.sp, BrkReturn \div 256, FALSE>>
        /\ Access(4) = <<256 + ((Cur.cpu.sp + 255) % 256), BrkReturn % 256, FALSE>>
        /\ Access(5)[1] = 256 + ((Cur.cpu.sp + 254) % 256)
        /\ ~Access(5)[3]
        /\ Bit(Access(5)[2], 4) = 1
        /\ BitAnd(Access(5)[2], 207) = BitAnd(Cur.cpu.status, 207)
        /\ Access(6) = <<65534, Peek(Cur, 65534), TRUE>>
        /\ Access(7) = <<65535, Peek(Cur, 65535), TRUE>>
        /\ nes.cpu.sp = (Cur.cpu.sp + 253) % 256
        /\ U16(nes.cpu.pc + 65535) = addr_concat(Peek(Cur, 65535), Peek(Cur, 65534))

\* C23: a BRK at address a pushes the high and the low byte of a + 2 and the
\* status with bit 4 set, loads PC from $FFFE and $FFFF, and leaves the I
\* flag set whatever it was before
C23_Brk ==
    /\ BrkPushesAndVector
    /\ (InstrDone /\ Opcode = 0) => Bit(nes.cpu.status, 2) = 1

(***************************************************************************)
(* JSR and RTS.  Runs of a JSR whose target holds an RTS: the JSR at the   *)
(* start and at the end of a ROM page, the target in ROM, in work RAM and  *)
(* at the last address, the stack pointer in the middle and at both ends   *)
(* of the stack page.                                                      *)
(***************************************************************************)
JsrAddrs == {32768, 33022}
JsrTargets == {32784, 512, 65535}
JsrStacks == {253, 0, 1, 255}

InitJsr ==
    \E a \in JsrAddrs, target \in JsrTargets, sp \in JsrStacks, checks \in BOOLEAN :
        /\ nes = Running(Place(Place(NopRom, a - 32768,
                                     <<32, target % 256, target \div 256>>),
                               target % 32768, <<96>>),
                         Place(MemFill(0), 512, <<96>>),
                         a, 129, 2, 2, sp, 36)
        /\ overflow_checks = checks
        /\ Stepped
        /\ Fresh

SpecJsr == InitJsr /\ [][CpuCycle]_vars

\* the Nes before the JSR that the run starts with, its address and its target
Jsr == decodes[1].at
JsrAddr == U16(Jsr.cpu.pc + 65535)
JsrTarget == addr_concat(Peek(Jsr, U16(JsrAddr + 2)), Peek(Jsr, U16(JsrAddr + 1)))

\* the JSR has completed: it pushed the high and then the low byte of a + 2
JsrPushes ==
    (InstrDone /\ Len(decodes) = 1) =>
        /\ Opcode = 32
        /\ Access(4) = <<256 + Jsr.cpu.sp, U16(JsrAddr + 2) \div 256, FALSE>>
        /\ Access(5) = <<256 + ((Jsr.cpu.sp + 255) % 256), U16(JsrAddr + 2) % 256, FALSE>>
        /\ U16(nes.cpu.pc + 65535) = JsrTarget

\* the RTS at the target has completed: the next opcode was fetched from
\* a + 3 and SP is what it was before the JSR
RtsResumes ==
    (InstrDone /\ Len(decodes) = 2) =>
        /\ Opcode = 96
        /\ OpcodeAddr = JsrTarget
        /\ nes.last_bus = <<U16(JsrAddr + 3), Peek(nes, U16(JsrAddr + 3)), TRUE>>
        /\ nes.cpu.prefetch = Peek(nes, U16(JsrAddr + 3))
        /\ nes.cpu.pc = U16(JsrAddr + 4)
        /\ nes.cpu.sp = Jsr.cpu.sp

\* every JSR and RTS that completes does what the specification says
CompletedJsrRts == JsrPushes /\ RtsResumes

\* the JSR or the RTS after it ended in a panic
JsrRtsFaulted == fault # "none" /\ retired < 2

\* C24: for a JSR at address a, with any target and any stack pointer S, the
\* JSR pushes the high and the low byte of a + 2, and an RTS at the target
\* resumes at a + 3 with SP = S
C24_JsrRts == ~JsrRtsFaulted /\ CompletedJsrRts

(***************************************************************************)
(* The NMI line around vblank.  The main loop runs a program that reads    *)
(* $2002 or writes $2000 while the PPU, its control register unlocked,     *)
(* passes dot 1 of scanline 241 or dot 1 of the pre-render scanline.       *)
(***************************************************************************)
\* LDA $2002, and STA $2000
VblPrograms == {<<173, 2, 32>>, <<141, 0, 32>>}

\* where the PPU is when the program starts, with the dots since reset and
\* the CPU cycles and divider count that 4 * dots master clocks give: 21
\* dots before vblank starts, one dot before it starts, and one dot before
\* it ends
VblStarts ==
    {[cycle |-> 320, scanline |-> 240, dots |-> 82501, cyc |-> 27500, div |-> 4],
     [cycle |-> 0, scanline |-> 241, dots |-> 82522, cyc |-> 27507, div |-> 4],
     [cycle |-> 0, scanline |-> 261, dots |-> 89342, cyc |-> 29780, div |-> 8]}

InitVbl ==
    \E prog \in VblPrograms, acc \in NmiCtrls, ctrl \in NmiCtrls,
       start \in VblStarts, checks \in BOOLEAN :
        LET vbl == start.scanline = 261 IN
        /\ nes = [Running(Place(NopRom, 0, prog), MemFill(0), 32768, acc, 0, 0, 253, 36)
                    EXCEPT !.ppu.pos = [cycle |-> start.cycle,
                                        scanline |-> start.scanline,
                                        is_odd |-> FALSE],
                           !.ppu.cycles_since_pwrrst = start.dots,
                           !.ppu.ctrl_unlocked = TRUE,
                           !.ppu.ctrl = ctrl,
                           !.ppu.ports_latch = ctrl,
                           !.ppu.vblank = vbl,
                           !.ppu.clock_divider = 0,
                           !.cpu.nmi = ~(vbl /\ generate_nmi(ctrl)),
                           !.cpu.clock_divider = start.div,
                           !.cpu.cyc = start.cyc]
        /\ overflow_checks = checks
        /\ Ticked
        /\ Fresh

SpecVbl == InitVbl /\ [][Tick]_vars

\* the CPU cycle of this master tick made the bus access `access`
CpuAccess(access) ==
    /\ fault' = "none"
    /\ nes.cpu.clock_divider = 11
    /\ \E k \in 1..Len(CycleLog) : CycleLog[k] = access

\* the PPU cycle of this master tick ran the dot `cycle` of line `scanline`
PpuDot(cycle, scanline) ==
    /\ fault' = "none"
    /\ nes.ppu.clock_divider = 3
    /\ nes.ppu.pos.cycle = cycle /\ nes.ppu.pos.scanline = scanline

\* this master tick read $2002
StatusReadTick == \E data \in 0..255 : CpuAccess(<<8194, data, TRUE>>)

\* C25: immediately after a CPU read of $2002, and immediately after the PPU
\* cycle at dot 1 of the pre-render scanline, the NMI line is high
C25_NmiDeasserted ==
    [][((StatusReadTick /\ ~PpuDot(1, 241)) \/ PpuDot(1, 261)) => nes'.cpu.nmi]_vars

\* this master tick wrote `data` to $2000, the control register unlocked
CtrlWriteTick(data) == nes.ppu.ctrl_unlocked /\ CpuAccess(<<8192, data, FALSE>>)

\* this master tick ran dot 1 of scanline 241 with generate_nmi set
AssertedByVblank == PpuDot(1, 241) /\ generate_nmi(nes'.ppu.ctrl)

\* this master tick wrote a value with generate_nmi set to $2000 while the
\* vblank flag was set
AssertedByWrite ==
    \E data \in 128..255 : CtrlWriteTick(data) /\ nes.ppu.vblank

\* C26: the NMI line is low immediately after the PPU cycle at dot 1 of
\* scanline 241 if generate_nmi is set, and immediately after an accepted
\* write to $2000 that sets generate_nmi while the vblank flag is set;
\* neither event changes the line while generate_nmi or vblank is clear
C26_NmiAsserted ==
    [][/\ (AssertedByVblank \/ AssertedByWrite) => ~nes'.cpu.nmi
       /\ ((PpuDot(1, 241) \/ \E data \in 0..255 : CtrlWriteTick(data))
            /\ ~(AssertedByVblank \/ AssertedByWrite))
           => nes'.cpu.nmi = nes.cpu.nmi]_vars

\* STA $2000 wrote $80 during vblank, the control register $00 until then,
\* and the line is low after the write
C26_Witness ==
    /\ fault = "none"
    /\ Len(decodes) = 1 /\ Len(trace) = 4
    /\ Opcode = 141
    /\ Cur.ppu.ctrl = 0
    /\ Access(4) = <<8192, 128, FALSE>>
    /\ nes.ppu.vblank
    /\ nes.ppu.pos.scanline = 241
    /\ ~nes.cpu.nmi

\* the PPU ran dot 1 of scanline 241 with generate_nmi set before any CPU
\* write, and the line is low
VblankAsserted ==
    /\ fault = "none"
    /\ nes.ppu.pos = [cycle |-> 2, scanline |-> 241, is_odd |-> FALSE]
    /\ nes.ppu.ctrl = 128
    /\ nes.ppu.vblank
    /\ ~nes.cpu.nmi

\* a write of $80 to $2000 outside vblank left the line high
WriteOutsideVblank ==
    /\ fault = "none"
    /\ Len(decodes) = 1 /\ Len(trace) = 4
    /\ Cur.ppu.ctrl = 0
    /\ Access(4) = <<8192, 128, FALSE>>
    /\ ~nes.ppu.vblank
    /\ nes.ppu.ctrl = 128
    /\ nes.cpu.nmi

(***************************************************************************)
(* The PPU warm-up after reset.                                            *)
(***************************************************************************)
\* the registers with a warm-up: $2000, $2001, $2005, $2006
WarmUpPorts == {8192, 8193, 8197, 8198}

\* the CPU cycle of this master tick wrote `data` to the port `addr`
PortWriteTick(addr, data) == CpuAccess(<<addr, data, FALSE>>)

\* what a write to one of the four ports can change
PortState(n) ==
    <<n.ppu.ctrl, n.ppu.mask, n.ppu.tmp_vram_addr, n.ppu.vram_addr,
      n.ppu.fine_x_scroll, n.ppu.write_toggle>>

\* C27: in the first 29,658 CPU cycles after reset a CPU write to $2000,
\* $2001, $2005 or $2006 changes none of ctrl, mask, t, v, fine X and the
\* write toggle; from CPU cycle 29,658 on a write to $2000 or $2001 sets the
\* register
C27_WarmUp ==
    [][\A addr \in WarmUpPorts, data \in 0..255 :
        PortWriteTick(addr, data) =>
            IF nes.cpu.cyc < 29658
            THEN PortState(nes') = PortState(nes)
            ELSE /\ addr = 8192 => nes'.ppu.ctrl = data
                 /\ addr = 8193 => nes'.ppu.mask = data]_vars

(***************************************************************************)
(* The predecode register.                                                 *)
(***************************************************************************)
\* C28: after any sequence of bus reads and writes, predecode holds the
\* value the most recent bus read returned: a read that returns leaves its
\* value there, and a write that returns leaves predecode as it was
C28_Predecode ==
    (trace # <<>> /\ fault = "none") =>
        nes.cpu.predecode = (IF Last.read THEN Last.data ELSE Last.before.cpu.predecode)

\* the part that holds: a read that returns leaves its value in predecode
ReadSetsPredecode ==
    (trace # <<>> /\ fault = "none" /\ Last.read) => nes.cpu.predecode = Last.data

\* a write that returns leaves the byte written in predecode
WriteSetsPredecode ==
    (trace # <<>> /\ fault = "none" /\ ~Last.read) => nes.cpu.predecode = Last.data

(***************************************************************************)
(* The scroll and address registers behind $2000, $2005 and $2006.         *)
(***************************************************************************)
\* the call made last was a write to port `addr`, and it returned
Wrote(addr) == trace # <<>> /\ fault = "none" /\ ~Last.read /\ Last.addr = addr

\* C29: an accepted write of data to $2000 sets bits 10..11 of t to
\* data and 3 and leaves the other bits of t, and all of v, unchanged
C29_CtrlNametable ==
    (Wrote(8192) /\ Last.before.ppu.ctrl_unlocked) =>
        /\ BitAnd(nes.ppu.tmp_vram_addr, 3072) = 1024 * (Last.data % 4)
        /\ BitAnd(nes.ppu.tmp_vram_addr, 62463) = BitAnd(Last.before.ppu.tmp_vram_addr, 62463)
        /\ nes.ppu.vram_addr = Last.before.ppu.vram_addr

\* what the write does: the byte goes to the control register, and t and v
\* stay as they were
CtrlWriteKeepsT ==
    (Wrote(8192) /\ Last.before.ppu.ctrl_unlocked) =>
        /\ nes.ppu.ctrl = Last.data
        /\ nes.ppu.tmp_vram_addr = Last.before.ppu.tmp_vram_addr
        /\ nes.ppu.vram_addr = Last.before.ppu.vram_addr

\* C30: $2005 and $2006 share the write toggle: every write to either flips
\* it, a read of $2002 clears it, and no other call changes it.  With the
\* toggle clear a $2006 write sets t bits 8..13 to data and $3F, clears t
\* bit 14, keeps t bits 0..7 and leaves v unchanged; with the toggle set it
\* sets t bits 0..7 to data, keeps t bits 8..14 and then copies t to v
C30_WriteToggle ==
    (trace # <<>> /\ fault = "none") =>
        /\ nes.ppu.write_toggle =
              (IF Wrote(8197) \/ Wrote(8198) THEN ~Last.before.ppu.write_toggle
               ELSE IF Last.read /\ Last.addr = 8194 THEN FALSE
               ELSE Last.before.ppu.write_toggle)
        /\ (Wrote(8198) /\ ~Last.before.ppu.write_toggle) =>
              /\ BitAnd(nes.ppu.tmp_vram_addr, 16128) = 256 * BitAnd(Last.data, 63)
              /\ Bit(nes.ppu.tmp_vram_addr, 14) = 0
              /\ nes.ppu.tmp_vram_addr % 256 = Last.before.ppu.tmp_vram_addr % 256
              /\ nes.ppu.vram_addr = Last.before.ppu.vram_addr
        /\ (Wrote(8198) /\ Last.before.ppu.write_toggle) =>
              /\ nes.ppu.tmp_vram_addr % 256 = Last.data
              /\ BitAnd(nes.ppu.tmp_vram_addr, 32512)
                    = BitAnd(Last.before.ppu.tmp_vram_addr, 32512)
              /\ nes.ppu.vram_addr = nes.ppu.tmp_vram_addr

\* two writes to $2005 left fine Y 5 in t, bit 14 set, and the toggle clear;
\* the first write to $2006 then cleared bit 14
C30_Witness ==
    /\ Len(trace) = 3
    /\ Wrote(8198)
    /\ ~trace[1].read /\ trace[1].addr = 8197
    /\ ~trace[2].read /\ trace[2].addr = 8197
    /\ ~Last.before.ppu.write_toggle
    /\ Bit(Last.before.ppu.tmp_vram_addr, 14) = 1
    /\ Bit(nes.ppu.tmp_vram_addr, 14) = 0
    /\ nes.ppu.write_toggle

\* the second write to $2006 copied t, its high byte from the first, to v
SecondAddressWrite ==
    /\ Len(trace) = 2
    /\ Wrote(8198)
    /\ Last.before.ppu.write_toggle
    /\ Last.before.ppu.tmp_vram_addr = 1280
    /\ nes.ppu.vram_addr = 1280 + Last.data

\* a read of $2002 cleared a toggle that a write had set
StatusReadClearedToggle ==
    /\ trace # <<>> /\ fault = "none"
    /\ Last.read /\ Last.addr = 8194
    /\ Last.before.ppu.write_toggle
    /\ ~nes.ppu.write_toggle

(***************************************************************************)
(* The data port $2007.  The program has unlocked the control register,    *)
(* chosen the address increment through $2000 and loaded v through $2006   *)
(* and $2005; then it reads and writes ports, in and out of vblank.        *)
(***************************************************************************)
\* the Nes after one more call of Nes::write
Wr(n, addr, data) == NesOf(BusWrite(Machine(n, FALSE), addr, data))

\* the PPU two dots into vblank of the first frame, rendering off
VblankPpu ==
    [WarmPpu EXCEPT !.cycles_since_pwrrst = 82524,
                    !.pos = [cycle |-> 2, scanline |-> 241, is_odd |-> FALSE],
                    !.vblank = TRUE]

\* the writes that load v: $2006 twice for an address of palette memory, and
\* $2006, $2005 twice and $2006 again for the highest value t can hold
DataSetups ==
    {<<<<8198, 63>>, <<8198, 0>>>>,
     <<<<8198, 63>>, <<8197, 255>>, <<8197, 255>>, <<8198, 255>>>>}

\* the address increments $2000 selects: 1 and 32
DataCtrls == {0, 4}

RECURSIVE WrAll(_, _)
WrAll(n, writes) ==
    IF writes = <<>> THEN n
    ELSE WrAll(Wr(n, writes[1][1], writes[1][2]), Tail(writes))

InitData ==
    \E ppu \in {WarmPpu, VblankPpu}, ctrl \in DataCtrls, setup \in DataSetups,
       checks \in BOOLEAN :
        /\ nes = WrAll([NesDefault EXCEPT !.ppu = ppu], <<<<8192, ctrl>>>> \o setup)
        /\ overflow_checks = checks
        /\ driver = "Nes::read, Nes::write"
        /\ Fresh

SpecData == InitData /\ [][Read \/ Write]_vars

\* C31: in every reachable state v and t are below $8000, and an access of
\* $2007, which adds 1 or 32 to v, does not fault on the addition
C31_FifteenBits ==
    /\ nes.ppu.vram_addr < 32768
    /\ nes.ppu.tmp_vram_addr < 32768
    /\ fault # "overflow"

\* t stays below $8000, and no access faults on the addition within the run
TFifteenBits == nes.ppu.tmp_vram_addr < 32768 /\ fault # "overflow"

(***************************************************************************)
(* The scroll counters of a rendering PPU.                                 *)
(***************************************************************************)
\* this step is a PPU cycle that returned, run with rendering enabled at dot
\* `cycle` of a visible or the pre-render scanline
RenderDot(cycle) ==
    /\ driver = "Ppu::cycle"
    /\ fault' = "none"
    /\ Rendering(nes)
    /\ nes.ppu.pos.cycle = cycle
    /\ (nes.ppu.pos.scanline <= 239 \/ nes.ppu.pos.scanline = 261)

\* C32: with rendering enabled, immediately after each PPU cycle at dots
\* 280..=304 of the pre-render scanline the vertical bits of v equal those
\* of t, (v and $7BE0) = (t and $7BE0), and the horizontal bits of v
\* (mask $041F) are as before
C32_VerticalCopy ==
    [][(\E cycle \in 280..304 : RenderDot(cycle) /\ nes.ppu.pos.scanline = 261) =>
        /\ BitAnd(nes'.ppu.vram_addr, 31712) = BitAnd(nes.ppu.tmp_vram_addr, 31712)
        /\ BitAnd(nes'.ppu.vram_addr, 1055) = BitAnd(nes.ppu.vram_addr, 1055)]_vars

\* what the cycle does at those dots: v keeps its bits outside $7BE0 and
\* takes, or-ed in, the bits of t outside $7BE0
VerticalCopyAsCoded ==
    [][(\E cycle \in 280..304 : RenderDot(cycle) /\ nes.ppu.pos.scanline = 261) =>
        nes'.ppu.vram_addr = BitOr(BitAnd(nes.ppu.vram_addr, 33823),
                                   BitAnd(nes.ppu.tmp_vram_addr, 33823))]_vars

\* the PPU 171180 calls of Ppu::cycle after Nes::default, rendering off: at
\* the last dot of scanline 238 of the second frame, with the last visible
\* scanline, the vblank scanlines and the pre-render scanline ahead
LatePpu ==
    [WarmPpu EXCEPT !.cycles_since_pwrrst = 171180,
                    !.pos = [cycle |-> 340, scanline |-> 238, is_odd |-> TRUE]]

\* the idle PPU of a run from reset is LatePpu when it gets there
LatePpuReached ==
    (nes.ppu.cycles_since_pwrrst = 171180 /\ nes.ppu.mask = 0)
        => nes.ppu = [LatePpu EXCEPT !.tmp_vram_addr = nes.ppu.tmp_vram_addr,
                                     !.fine_x_scroll = nes.ppu.fine_x_scroll,
                                     !.ports_latch = nes.ppu.ports_latch,
                                     !.write_toggle = nes.ppu.write_toggle]

\* the writes that load v before rendering is turned on: v = 0; coarse Y 29
\* and fine Y 7 with coarse X 31; coarse Y 31 and fine Y 7 with coarse X 31;
\* coarse Y 5 and fine Y 7; v = 0 again, with tile 5 written through $2007 to the
\* first byte of the first nametable
ScrollSetups ==
    {<<<<8198, 0>>, <<8198, 0>>>>,
     <<<<8198, 0>>, <<8197, 239>>, <<8197, 0>>, <<8198, 191>>>>,
     <<<<8198, 63>>, <<8197, 255>>, <<8197, 255>>, <<8198, 255>>>>,
     <<<<8198, 0>>, <<8197, 47>>, <<8197, 0>>, <<8198, 160>>>>,
     <<<<8198, 32>>, <<8198, 0>>, <<8199, 5>>, <<8198, 0>>, <<8198, 0>>>>}

\* the masks that turn rendering on: background, sprites
ScrollMasks == {8, 16}

InitScroll ==
    \E setup \in ScrollSetups, mask \in ScrollMasks, checks \in BOOLEAN :
        /\ nes = WrAll([NesDefault EXCEPT !.ppu = LatePpu], setup \o <<<<8193, mask>>>>)
        /\ overflow_checks = checks
        /\ driver = "Ppu::cycle"
        /\ Fresh

SpecScroll == InitScroll /\ [][PpuCycle]_vars

\* coarse X plus one as the specification gives it: from 31 it wraps to 0 and flips
\* bit 10, and no other bit changes
CoarseXStep(v) ==
    IF v % 32 = 31 THEN BitXor(v - 31, 1024) ELSE v + 1

\* fine Y plus one as the specification gives it: from 7 it wraps to 0 and coarse Y
\* goes from 29 to 0 flipping bit 11, from 31 to 0, and up by one otherwise
FineYStep(v) ==
    IF (v \div 4096) % 8 # 7 THEN v + 4096
    ELSE LET z == v - 28672
             cy == (z \div 32) % 32
         IN  IF cy = 29 THEN BitXor(z - 928, 2048)
             ELSE IF cy = 31 THEN z - 992
             ELSE z + 32

\* the dots at which the PPU copies bits of t into v
CopyDot(cycle, scanline) ==
    cycle = 257 \/ (scanline = 261 /\ cycle >= 280 /\ cycle <= 304)

\* C33: on a visible or the pre-render scanline with rendering enabled,
\* coarse X of v is incremented at dots 8, 16, .., 256 and fine Y at dot 256,
\* neither changes another bit of v, and no other dot but those of the
\* copies from t changes v
C33_ScrollIncrements ==
    [][\A cycle \in 0..340 :
        RenderDot(cycle) =>
            nes'.ppu.vram_addr =
                (IF cycle = 256 THEN FineYStep(CoarseXStep(nes.ppu.vram_addr))
                 ELSE IF cycle >= 8 /\ cycle <= 248 /\ cycle % 8 = 0
                 THEN CoarseXStep(nes.ppu.vram_addr)
                 ELSE IF CopyDot(cycle, nes.ppu.pos.scanline) THEN nes'.ppu.vram_addr
                 ELSE nes.ppu.vram_addr)]_vars

\* dot 256 of the last visible scanline has run on v = $7BFF, with coarse X 30,
\* coarse Y 31 and fine Y 7: fine Y and coarse Y wrapped, bit 11 kept
C33_Witness ==
    /\ fault = "none"
    /\ nes.ppu.pos = [cycle |-> 257, scanline |-> 239, is_odd |-> TRUE]
    /\ nes.ppu.tmp_vram_addr = 32767
    /\ nes.ppu.vram_addr = 2079

(***************************************************************************)
(* The background fetches of a rendering PPU.                              *)
(***************************************************************************)
\* the byte the PPU bus holds at addr
BusByte(addr) == PpuRead(Machine(nes, FALSE), addr).ret

\* the four latches of the background fetch
Latches(n) ==
    <<n.ppu.nametable_lat, n.ppu.attribute_lat, n.ppu.pattern_lower_lat,
      n.ppu.pattern_upper_lat>>

\* this step took into its latch the byte that dot `cycle` of the 8-dot fetch
\* reads: the nametable byte of v at the 2nd dot, the attribute byte at the
\* 4th, the two pattern bytes of the tile at the 6th and the 8th
Fetched(cycle) ==
    LET v == nes.ppu.vram_addr IN
    CASE cycle % 8 = 2 -> nes'.ppu.nametable_lat = BusByte(BitOr(8192, v % 4096))
      [] cycle % 8 = 4 ->
            nes'.ppu.attribute_lat =
                BusByte(BitOr(BitOr(BitOr(9152, BitAnd(v, 3072)), BitAnd(v \div 16, 56)),
                              BitAnd(v \div 4, 7)))
      [] cycle % 8 = 6 ->
            nes'.ppu.pattern_lower_lat = BusByte(PatternAddr(Machine(nes, FALSE), 0))
      [] cycle % 8 = 0 ->
            nes'.ppu.pattern_upper_lat = BusByte(PatternAddr(Machine(nes, FALSE), 8))
      [] OTHER -> TRUE

\* the fetch runs at the dots of 1..=256 and of first..=336, and at no other
\* dot of a rendering scanline is a latch loaded
FetchesIn(first) ==
    \A cycle \in 0..340 :
        RenderDot(cycle) =>
            IF (cycle >= 1 /\ cycle <= 256) \/ (cycle >= first /\ cycle <= 336)
            THEN Fetched(cycle)
            ELSE Latches(nes') = Latches(nes)

\* C34: on every visible and pre-render scanline with rendering enabled the
\* nametable, attribute, pattern-low and pattern-high bytes are read from the
\* PPU bus at the 2nd, 4th, 6th and 8th dot of each 8-dot fetch in both dot
\* ranges 1..256 and 321..336, and no background fetch occurs at dots
\* 257..320 or 337..340
C34_Fetches == [][FetchesIn(321)]_vars

\* the fetches the code makes: those of dots 1..=256 only
FetchesAsCoded == [][FetchesIn(337)]_vars

(***************************************************************************)
(* The skipped dot of odd frames.                                          *)
(***************************************************************************)
\* this step is the PPU cycle at dot 340 of scanline 261, and it returned
LastDot ==
    /\ driver = "Ppu::cycle"
    /\ fault' = "none"
    /\ nes.ppu.pos.cycle = 340
    /\ nes.ppu.pos.scanline = 261

\* C35: the position goes from scanline 261 dot 340 to scanline 0 dot 1,
\* skipping dot 0, when the frame that starts is odd and background rendering
\* is enabled; when it is even, or odd with background rendering disabled,
\* the position goes to dot 0 of scanline 0
C35_OddFrameSkip ==
    [][LastDot =>
        /\ nes'.ppu.pos.scanline = 0
        /\ nes'.ppu.pos.cycle =
              (IF nes'.ppu.pos.is_odd /\ show_background(nes.ppu.mask) THEN 1 ELSE 0)]_vars

\* the skip the code makes: at the start of every odd frame, whatever the mask
SkipAsCoded ==
    [][LastDot =>
        /\ nes'.ppu.pos.scanline = 0
        /\ nes'.ppu.pos.is_odd = ~nes.ppu.pos.is_odd
        /\ nes'.ppu.pos.cycle = (IF nes'.ppu.pos.is_odd THEN 1 ELSE 0)]_vars

(***************************************************************************)
(* The reads of an indexed absolute access that crosses a page.            *)
(***************************************************************************)
\* the index register of the instruction in Absolute,X or Absolute,Y mode
IndexOf == IF Opcode \in AbsXReads THEN Cur.cpu.x ELSE Cur.cpu.y

\* the NOPs in Absolute,X mode, whose body makes no access
AbsXNops == {28, 60, 92, 124, 220, 252}

\* an Absolute,X or Absolute,Y read that uses its operand, and whose index
\* addition carries, has run at least n cycles
CrossingRead(n) ==
    /\ fault = "none"
    /\ decodes # <<>>
    /\ Opcode \in (AbsXReads \cup AbsYReads) \ AbsXNops
    /\ PageCrossed
    /\ Len(trace) >= n

\* the first bus access of cycle n of the instruction is a read at addr
ReadsAt(n, addr) ==
    /\ trace[n].log # <<>>
    /\ trace[n].log[1][1] = addr
    /\ trace[n].log[1][3]

\* LDA takes the byte read at cycle 5
UsesFifthRead ==
    (InstrDone /\ Opcode \in {185, 189}) => nes.cpu.acc = trace[5].log[1][2]

\* C36: for an Absolute,X or Absolute,Y read whose index addition crosses a
\* page, the bus read at cycle 4 is made at the speculative address
\* {op2, (op1 + index) mod 256}, the read at cycle 5 at the effective address
\* {op2, op1} + index, and the instruction uses the value read at cycle 5
C36_PageCrossRead ==
    /\ CrossingRead(4) =>
          ReadsAt(4, addr_concat(Operand2, (Operand1 + IndexOf) % 256))
    /\ CrossingRead(5) =>
          /\ ReadsAt(5, U16(addr_concat(Operand2, Operand1) + IndexOf))
          /\ UsesFifthRead

\* the reads the code makes: both at the effective address
PageCrossReadAsCoded ==
    /\ CrossingRead(4) => ReadsAt(4, U16(addr_concat(Operand2, Operand1) + IndexOf))
    /\ CrossingRead(5) =>
          /\ ReadsAt(5, U16(addr_concat(Operand2, Operand1) + IndexOf))
          /\ UsesFifthRead

(***************************************************************************)
(* The stack.                                                              *)
(***************************************************************************)
\* PRG ROMs that start with a stack instruction: a push and then a pull, JSR
\* to an RTS, BRK with RTI at its vector $EAEA, RTS and RTI alone
StackRoms ==
    {Place(NopRom, 0, prg) :
        prg \in {<<72, 104>>, <<8, 40>>, <<8, 104>>, <<72, 40>>, <<32, 3, 128, 96>>,
                 <<96>>, <<64>>}}
    \cup {Place(Place(NopRom, 0, <<0>>), 27370, <<64>>)}

\* stack pointers at and away from the two ends of the stack page
StackPointers == {0, 1, 2, 128, 253, 254, 255}

\* the program at $8000, the work RAM holding $90 so that what a pull finds
\* on the stack is an address in ROM
InitStack ==
    \E prg \in StackRoms, sp \in StackPointers, status \in TimingStatuses,
       checks \in BOOLEAN :
        /\ nes = Running(prg, MemFill(144), 32768, 90, 2, 2, sp, status)
        /\ overflow_checks = checks
        /\ Stepped
        /\ Fresh

SpecStack == InitStack /\ [][CpuCycle]_vars

\* PHA, PHP, PLA, PLP, JSR, RTS, RTI, BRK
StackOps == {72, 8, 104, 40, 32, 96, 64, 0}

\* the bytes an instruction pushes and pulls
Pushes(op) == CASE op \in {72, 8} -> 1 [] op = 32 -> 2 [] op = 0 -> 3 [] OTHER -> 0
Pulls(op) == CASE op \in {104, 40} -> 1 [] op = 96 -> 2 [] op = 64 -> 3 [] OTHER -> 0

\* the bus accesses of the first n cycles of the running instruction, in order
RECURSIVE AccessesTo(_)
AccessesTo(n) == IF n = 0 THEN <<>> ELSE AccessesTo(n - 1) \o trace[n].log

IsWrite(access) == ~access[3]
IsDataRead(access) == access[3] /\ access[1] < 32768

\* its writes, and its reads outside the ROM
Writes == SelectSeq(AccessesTo(Len(trace)), IsWrite)
DataReads == SelectSeq(AccessesTo(Len(trace)), IsDataRead)

\* the stack address k places above stack pointer sp, k places below for k < 0
StackAddr(sp, k) == 256 + ((sp + 256 + k) % 256)

\* the byte the push that starts the run wrote: the accumulator for PHA, the
\* status with bits 4 and 5 set for PHP
PushedByte ==
    IF decodes[1].at.cpu.prefetch = 72 THEN decodes[1].at.cpu.acc
    ELSE BitOr(decodes[1].at.cpu.status, 48)

\* a pull has completed right after a push
PushPullDone ==
    /\ InstrDone
    /\ Len(decodes) = 2
    /\ decodes[1].at.cpu.prefetch \in {72, 8}
    /\ Opcode \in {104, 40}

\* C37: every stack access of PHA, PHP, PLA, PLP, JSR, RTS, RTI and BRK is in
\* $0100..$01FF: the k-th push of the instruction writes at $0100 + SP - (k-1)
\* and the k-th pull reads at $0100 + SP + k, modulo 256, the stack pointer
\* ends at SP - pushes + pulls modulo 256, and a push followed by a pull
\* returns the pushed byte and restores SP
C37_Stack ==
    (fault = "none" /\ decodes # <<>> /\ Opcode \in StackOps) =>
        /\ \A k \in 1..Len(Writes) : Writes[k][1] = StackAddr(Cur.cpu.sp, 1 - k)
        /\ \A k \in 1..Len(DataReads) : DataReads[k][1] \in 256..511
        /\ InstrDone =>
              /\ Len(Writes) = Pushes(Opcode)
              /\ Len(DataReads) >= Pulls(Opcode)
              /\ \A k \in 1..Pulls(Opcode) :
                    DataReads[Len(DataReads) - Pulls(Opcode) + k][1] = StackAddr(Cur.cpu.sp, k)
              /\ nes.cpu.sp = (Cur.cpu.sp + 256 - Pushes(Opcode) + Pulls(Opcode)) % 256
        /\ PushPullDone =>
              /\ DataReads[Len(DataReads)][2] = PushedByte
              /\ nes.cpu.sp = decodes[1].at.cpu.sp

\* PLA has returned the byte that PHA pushed at $0100 with the stack pointer
\* at $00, and the stack pointer is $00 again
C37_Witness ==
    /\ PushPullDone
    /\ decodes[1].at.cpu.prefetch = 72
    /\ Opcode = 104
    /\ decodes[1].at.cpu.sp = 0
    /\ Cur.cpu.sp = 255
    /\ nes.cpu.sp = 0
    /\ nes.cpu.acc = 90

(***************************************************************************)
(* The arithmetic of the pixel routine.                                    *)
(***************************************************************************)
\* C38: with rendering enabled, running the PPU through the dots of a frame
\* never faults: the framebuffer index, x_pos - 17, dot - 1 and the 8-bit sum
\* that forms x_pos stay within their integer width
C38_NoPixelFault ==
    (driver = "Ppu::cycle" /\ Rendering(nes)) => fault = "none"

\* the PPU faults only in a build with overflow checks, and only by an
\* integer overflow
PixelFaultIsOverflow ==
    (driver = "Ppu::cycle" /\ fault # "none") =>
        /\ overflow_checks
        /\ Rendering(nes)
        /\ fault = "overflow"

(***************************************************************************)
(* Address arithmetic at the top of the address space.                     *)
(***************************************************************************)
\* programs whose address arithmetic passes $FFFF: LDA $FFF0,X and
\* LDA $FFF0,Y, JMP $FFFF, RTS to $FFFF, JMP ($FFFF), all at $8000, and
\* BNE +127 at $7FF0 in PRG RAM
WrapRuns ==
    {[prg |-> Place(NopRom, 0, bytes), ram |-> MemFill(0), base |-> 32768] :
        bytes \in {<<189, 240, 255>>, <<185, 240, 255>>, <<76, 255, 255>>, <<96>>,
                   <<108, 255, 255>>}}
    \cup {[prg |-> NopRom, ram |-> Place(MemFill(234), 8176, <<208, 127>>), base |-> 32752]}

\* the program at an instruction boundary, the work RAM holding $FF, the index
\* registers carrying or not into the high address byte, Z clear or set
InitWrap ==
    \E run \in WrapRuns, index \in TimingIndexes, status \in TimingStatuses,
       checks \in BOOLEAN :
        /\ nes = NesOf(Prefetch(Machine(
                     [NesDefault EXCEPT !.cart = [Mapper000(run.prg, MemFill(0))
                                                     EXCEPT !.prg_ram = run.ram],
                                        !.cpu.wram = MemFill(255), !.cpu.pc = run.base,
                                        !.cpu.acc = 129, !.cpu.x = index, !.cpu.y = index,
                                        !.cpu.sp = 253, !.cpu.status = status],
                     FALSE)))
        /\ overflow_checks = checks
        /\ Stepped
        /\ Fresh

SpecWrap == InitWrap /\ [][CpuCycle]_vars

\* the first instruction of the run has completed
FirstDone == InstrDone /\ Len(decodes) = 1

\* what the first instruction leaves when its address arithmetic wraps modulo
\* 2^16: the indexed load has read at {op2, op1} + index, JMP $FFFF and the RTS
\* have fetched the opcode at $FFFF and at $0000 and stepped PC past it, and
\* the taken branch has fetched the opcode at its target
WrappedResults ==
    FirstDone =>
        /\ (Opcode \in {185, 189}) =>
              LET access == trace[Len(trace)].log[1] IN
              /\ access[1] = U16(addr_concat(Operand2, Operand1) + IndexOf)
              /\ nes.cpu.acc = access[2]
        /\ Opcode = 76 => nes.cpu.pc = 0
        /\ Opcode = 96 => nes.cpu.pc = 1
        /\ (Opcode = 208 /\ BitAnd(Cur.cpu.status, 2) = 0) =>
              nes.cpu.pc = U16(Cur.cpu.pc + 1 + Operand1 + 1)

\* C39: CPU address arithmetic wraps modulo 2^16 and never faults: an indexed
\* effective address with high operand byte $FF and a carry, the increment
\* of PC at $FFFF, the RTS return address $FFFF + 1, the indirect JMP pointer
\* $FFFF and a branch from PC at or above $7F80 with a positive offset yield
\* the wrapped result
C39_AddressWraps ==
    /\ (decodes # <<>> /\ Len(decodes) = 1) => fault # "overflow"
    /\ WrappedResults

\* a build without overflow checks wraps, as stated
WrapsUnchecked ==
    /\ ~overflow_checks => fault # "overflow"
    /\ WrappedResults

\* the instructions that step above $FFFF all panic in a build with overflow checks
PanicsChecked ==
    (FirstDone /\ overflow_checks) =>
        \/ Opcode \in {185, 189} /\ Operand1 + IndexOf < 256
        \/ Opcode = 208 /\ BitAnd(Cur.cpu.status, 2) # 0

(***************************************************************************)
(* Reads of the PPU data port.                                             *)
(***************************************************************************)
\* the call made last is a read of $2007
DataRead == trace # <<>> /\ Last.read /\ Last.addr = 8199

\* v pointed into the palette, $3F00..$3FFF, before the call made last
PaletteBefore == Last.before.ppu.vram_addr % 16384 >= 16128

\* C40: a CPU read of $2007 never faults, whatever v and the PPU state:
\* with v in $3F00..$3FFF and the vblank flag set it completes and returns a
\* byte
C40_DataReadCompletes ==
    DataRead => fault = "none"

\* the reads of $2007 that fault: those of the palette during vblank, which
\* the code leaves unimplemented
DataReadFaults ==
    DataRead =>
        (fault # "none" <=> (PaletteBefore /\ Last.before.ppu.vblank))

====
